---- MODULE Spec2Model ----
(***************************************************************************)
(* MediaCrawler API server: the task orchestration engine.                 *)
(*                                                                         *)
(*   server/task_runner.py   TaskStatus, ConfigInjector, CrawlerWrapper,   *)
(*                           TaskExecutor                                  *)
(*   server/db_handler.py    MediaCrawlerDBHandler                         *)
(*   server_main.py          the HTTP control surface                      *)
(*                                                                         *)
(* The program runs on one asyncio event loop: the code between two        *)
(* suspension points (an await that really waits) runs without             *)
(* interleaving.  Each action below is one such stretch of code.  An       *)
(* asyncio.Lock that is free is acquired without suspending, and no holder *)
(* of TaskExecutor._lock awaits while holding it, so the two critical      *)
(* sections never suspend.                                                 *)
(*                                                                         *)
(* External collaborators (the Crawler, the store modules, MongoDB, the    *)
(* config module) are the environment: what they return or raise is a      *)
(* nondeterministic choice.                                                *)
(***************************************************************************)
EXTENDS Integers, Sequences, FiniteSets, TLC

(***************************************************************************)
(* Bounds of the model.                                                    *)
(***************************************************************************)
\* how many tasks are admitted in one behaviour
MaxTasks == 2
\* how many times one Crawler run calls the platform's save hook
MaxCapture == 1
\* how many save / save_batch calls the persistence specification makes
MaxSaves == 3
\* the largest value of the wall clock in the persistence specification
MaxClock == 1

(***************************************************************************)
(* Python values.  A value is a record [ty, v]; v is the text of the       *)
(* value, so that str() is a conversion and not the identity.              *)
(***************************************************************************)
None == [ty |-> "none", v |-> "None"]
PyStr(s) == [ty |-> "str", v |-> s]
PyInt(s) == [ty |-> "int", v |-> s]

\* bool(x) as Python's `or` and `if not x` evaluate it
Truthy(x) ==
    CASE x.ty = "none" -> FALSE
      [] x.ty = "str"  -> x.v # ""
      [] x.ty = "int"  -> x.v # "0"

\* a or b
PyOr(a, b) == IF Truthy(a) THEN a ELSE b

\* str(x)
Str(x) == x.v

\* d.get(k): None when the key is missing
DictGet(d, k) == IF k \in DOMAIN d THEN d[k] ELSE None

\* d.get(k, default)
DictGetDefault(d, k, default) == IF k \in DOMAIN d THEN d[k] ELSE default

\* d[k] = v on a dict
DictSet(d, k, val) == [x \in DOMAIN d \cup {k} |-> IF x = k THEN val ELSE d[x]]

\* ",".join(keywords)
RECURSIVE Join(_)
Join(keywords) ==
    IF Len(keywords) = 0 THEN ""
    ELSE IF Len(keywords) = 1 THEN keywords[1]
    ELSE keywords[1] \o "," \o Join(Tail(keywords))

\* an identifier rule that looks at id before the three other fields
DerivePostId_id_first(post_data) ==
    PyOr(DictGet(post_data, "id"),
         PyOr(DictGet(post_data, "post_id"),
              PyOr(DictGet(post_data, "note_id"),
                   DictGet(post_data, "aweme_id"))))

\* post_data.get("post_id") or .get("note_id") or .get("aweme_id") or .get("id")
DerivePostId(post_data) ==
    PyOr(DictGet(post_data, "post_id"),
         PyOr(DictGet(post_data, "note_id"),
              PyOr(DictGet(post_data, "aweme_id"),
                   DictGet(post_data, "id"))))

(***************************************************************************)
(* The shared scraper configuration: the attributes of the config module.  *)
(* A module is a function from attribute names to values; hasattr is       *)
(* membership in its domain.                                               *)
(***************************************************************************)
\* the settings the config module holds when the process starts
BaseConfig ==
    [PLATFORM |-> "xhs",
     KEYWORDS |-> "base",
     LOGIN_TYPE |-> "qrcode",
     CRAWLER_TYPE |-> "search",
     HEADLESS |-> FALSE,
     ENABLE_CDP_MODE |-> TRUE,
     ENABLE_IP_PROXY |-> FALSE,
     IP_PROXY_POOL_COUNT |-> 2,
     CRAWLER_MAX_NOTES_COUNT |-> 15,
     CRAWLER_MAX_COMMENTS_COUNT_SINGLENOTES |-> 10,
     ENABLE_GET_COMMENTS |-> TRUE,
     ENABLE_GET_SUB_COMMENTS |-> FALSE,
     CRAWLER_MAX_SLEEP_SEC |-> 2]

\* the config module with a SORT_TYPE attribute
ConfigWithSortType ==
    [k \in DOMAIN BaseConfig \cup {"SORT_TYPE"} |->
        IF k = "SORT_TYPE" THEN "popularity_descending" ELSE BaseConfig[k]]

\* the config module with and without a SORT_TYPE attribute
InitialConfigs == {BaseConfig, ConfigWithSortType}

\* CrawlerConfig(): every field at its declared default
DefaultCrawlerConfig ==
    [login_type |-> "qrcode",
     crawler_type |-> "search",
     sort_type |-> "general",
     headless |-> FALSE,
     enable_cdp_mode |-> TRUE,
     enable_proxy |-> FALSE,
     ip_proxy_pool_count |-> 2,
     max_notes_count |-> 20,
     max_comments_per_note |-> 10,
     enable_get_comments |-> TRUE,
     enable_get_sub_comments |-> FALSE,
     max_sleep_sec |-> 2]

\* a CrawlerConfig that differs from the base settings in every field
OverrideCrawlerConfig ==
    [login_type |-> "cookie",
     crawler_type |-> "detail",
     sort_type |-> "time_descending",
     headless |-> TRUE,
     enable_cdp_mode |-> FALSE,
     enable_proxy |-> TRUE,
     ip_proxy_pool_count |-> 5,
     max_notes_count |-> 5,
     max_comments_per_note |-> 5,
     enable_get_comments |-> FALSE,
     enable_get_sub_comments |-> TRUE,
     max_sleep_sec |-> 5]

\* the settings inject_config overwrites, SORT_TYPE only when the module has it
OverwrittenSettings(cfg) ==
    {"PLATFORM", "KEYWORDS", "LOGIN_TYPE", "CRAWLER_TYPE", "HEADLESS",
     "ENABLE_CDP_MODE", "ENABLE_IP_PROXY", "IP_PROXY_POOL_COUNT",
     "CRAWLER_MAX_NOTES_COUNT", "CRAWLER_MAX_COMMENTS_COUNT_SINGLENOTES",
     "ENABLE_GET_COMMENTS", "ENABLE_GET_SUB_COMMENTS", "CRAWLER_MAX_SLEEP_SEC"}
    \cup (IF "SORT_TYPE" \in DOMAIN cfg THEN {"SORT_TYPE"} ELSE {})

\* ConfigInjector.inject_config: the new module attributes, the new value of
\* the crawler_type context variable and the tokens dict it returns
inject_config(cfg, ctxvar, platform, keywords, crawler_config) ==
    LET written ==
            [PLATFORM |-> platform,
             KEYWORDS |-> Join(keywords),
             LOGIN_TYPE |-> crawler_config.login_type,
             CRAWLER_TYPE |-> crawler_config.crawler_type,
             HEADLESS |-> crawler_config.headless,
             ENABLE_CDP_MODE |-> crawler_config.enable_cdp_mode,
             ENABLE_IP_PROXY |-> crawler_config.enable_proxy,
             IP_PROXY_POOL_COUNT |-> crawler_config.ip_proxy_pool_count,
             CRAWLER_MAX_NOTES_COUNT |-> crawler_config.max_notes_count,
             CRAWLER_MAX_COMMENTS_COUNT_SINGLENOTES |-> crawler_config.max_comments_per_note,
             ENABLE_GET_COMMENTS |-> crawler_config.enable_get_comments,
             ENABLE_GET_SUB_COMMENTS |-> crawler_config.enable_get_sub_comments,
             CRAWLER_MAX_SLEEP_SEC |-> crawler_config.max_sleep_sec,
             SORT_TYPE |-> crawler_config.sort_type]
        saved ==
            [original_platform |-> cfg.PLATFORM,
             original_keywords |-> cfg.KEYWORDS,
             original_login_type |-> cfg.LOGIN_TYPE,
             original_crawler_type |-> cfg.CRAWLER_TYPE,
             original_headless |-> cfg.HEADLESS,
             original_enable_cdp |-> cfg.ENABLE_CDP_MODE,
             original_enable_proxy |-> cfg.ENABLE_IP_PROXY,
             original_max_notes |-> cfg.CRAWLER_MAX_NOTES_COUNT,
             original_max_comments |-> cfg.CRAWLER_MAX_COMMENTS_COUNT_SINGLENOTES,
             original_enable_comments |-> cfg.ENABLE_GET_COMMENTS,
             original_enable_sub_comments |-> cfg.ENABLE_GET_SUB_COMMENTS,
             original_sleep |-> cfg.CRAWLER_MAX_SLEEP_SEC,
             crawler_type_token |-> ctxvar]
        hasSort == "SORT_TYPE" \in DOMAIN cfg
    IN  [config |-> [k \in DOMAIN cfg |->
                        IF k \in OverwrittenSettings(cfg) THEN written[k] ELSE cfg[k]],
         ctxvar |-> crawler_config.crawler_type,
         tokens |-> IF hasSort
                    THEN DictSet(saved, "original_sort_type", cfg.SORT_TYPE)
                    ELSE saved]

\* ConfigInjector.restore_config: the module attributes and the context
\* variable after the call
restore_config(cfg, ctxvar, tokens) ==
    IF DOMAIN tokens = {}
    THEN [config |-> cfg, ctxvar |-> ctxvar]
    ELSE LET restored ==
                [PLATFORM |-> DictGetDefault(tokens, "original_platform", "xhs"),
                 KEYWORDS |-> DictGetDefault(tokens, "original_keywords", ""),
                 LOGIN_TYPE |-> DictGetDefault(tokens, "original_login_type", "qrcode"),
                 CRAWLER_TYPE |-> DictGetDefault(tokens, "original_crawler_type", "search"),
                 HEADLESS |-> DictGetDefault(tokens, "original_headless", FALSE),
                 ENABLE_CDP_MODE |-> DictGetDefault(tokens, "original_enable_cdp", TRUE),
                 ENABLE_IP_PROXY |-> DictGetDefault(tokens, "original_enable_proxy", FALSE),
                 CRAWLER_MAX_NOTES_COUNT |-> DictGetDefault(tokens, "original_max_notes", 15),
                 CRAWLER_MAX_COMMENTS_COUNT_SINGLENOTES |->
                     DictGetDefault(tokens, "original_max_comments", 10),
                 ENABLE_GET_COMMENTS |-> DictGetDefault(tokens, "original_enable_comments", TRUE),
                 ENABLE_GET_SUB_COMMENTS |->
                     DictGetDefault(tokens, "original_enable_sub_comments", FALSE),
                 CRAWLER_MAX_SLEEP_SEC |-> DictGetDefault(tokens, "original_sleep", 2)]
             sortKeys == IF "original_sort_type" \in DOMAIN tokens THEN {"SORT_TYPE"} ELSE {}
         IN  [config |-> [k \in DOMAIN cfg \cup DOMAIN restored \cup sortKeys |->
                            IF k \in DOMAIN restored THEN restored[k]
                            ELSE IF k \in sortKeys THEN tokens["original_sort_type"]
                            ELSE cfg[k]],
              ctxvar |-> IF "crawler_type_token" \in DOMAIN tokens
                         THEN tokens["crawler_type_token"]
                         ELSE ctxvar]

(***************************************************************************)
(* MediaCrawlerDBHandler.  A platform collection is the sequence of its    *)
(* documents in insertion order.                                           *)
(***************************************************************************)
\* the supported platform codes the model runs
Platforms == {"xhs", "wb"}

\* valid_platforms of start_crawl
valid_platforms == {"xhs", "dy", "ks", "bili", "wb", "tieba", "zhihu"}

\* the positions of the documents of coll that match {"post_id": id}
Matching(coll, id) == {j \in 1..Len(coll) : coll[j].post_id = id}

\* an update_one that inserts whether or not a document matches
update_one_always_inserts(coll, id, document) == Append(coll, document)

\* collection.update_one(query, {"$set": document}, upsert=True): the first
\* matching document gets the fields of document, and a new document is
\* inserted when none matches
update_one(coll, id, document) ==
    IF Matching(coll, id) # {}
    THEN LET j == CHOOSE k \in Matching(coll, id) : \A m \in Matching(coll, id) : k <= m
         IN  [coll EXCEPT ![j] = document]
    ELSE Append(coll, document)

\* metadata or {}: None and the empty dict give the empty dict
MetadataOrEmpty(metadata) ==
    IF DOMAIN metadata = DOMAIN None THEN <<>> ELSE metadata

\* save_post_with_comments: the collection after the call and the value
\* returned; store_ok is FALSE when the driver raises
save_post_with_comments(coll, post_data, comments, metadata, clock, store_ok) ==
    LET post_id == DerivePostId(post_data)
        document == [post_id |-> Str(post_id),
                     post_detail |-> post_data,
                     comments |-> comments,
                     comment_count |-> Len(comments),
                     crawl_metadata |-> MetadataOrEmpty(metadata),
                     updated_at |-> clock]
    IN  IF ~store_ok THEN [coll |-> coll, ret |-> FALSE]
        ELSE IF ~Truthy(post_id) THEN [coll |-> coll, ret |-> FALSE]
        ELSE [coll |-> update_one(coll, Str(post_id), document), ret |-> TRUE]

\* a save_batch that gives up at the first post it cannot save
RECURSIVE save_batch_until_failure(_, _, _, _, _, _, _)
save_batch_until_failure(coll, posts_data, comments_dict, metadata, clock, oks, i) ==
    IF i > Len(posts_data) THEN [coll |-> coll, success_count |-> 0]
    ELSE LET post_data == posts_data[i]
             post_id == DerivePostId(post_data)
         IN  IF ~Truthy(post_id)
             THEN [coll |-> coll, success_count |-> 0]
             ELSE LET comments == DictGetDefault(comments_dict, Str(post_id), <<>>)
                      one == save_post_with_comments(coll, post_data, comments,
                                                     metadata, clock, oks[i])
                      rest == save_batch_until_failure(one.coll, posts_data, comments_dict,
                                                       metadata, clock, oks, i + 1)
                  IN  IF one.ret
                      THEN [coll |-> rest.coll, success_count |-> rest.success_count + 1]
                      ELSE [coll |-> one.coll, success_count |-> 0]

\* save_batch from position i on: oks[j] tells whether the driver works for
\* the j-th post; posts without an identifier are skipped
RECURSIVE save_batch_from(_, _, _, _, _, _, _)
save_batch_from(coll, posts_data, comments_dict, metadata, clock, oks, i) ==
    IF i > Len(posts_data) THEN [coll |-> coll, success_count |-> 0]
    ELSE LET post_data == posts_data[i]
             post_id == DerivePostId(post_data)
         IN  IF ~Truthy(post_id)
             THEN save_batch_from(coll, posts_data, comments_dict, metadata, clock, oks, i + 1)
             ELSE LET comments == DictGetDefault(comments_dict, Str(post_id), <<>>)
                      one == save_post_with_comments(coll, post_data, comments,
                                                     metadata, clock, oks[i])
                      rest == save_batch_from(one.coll, posts_data, comments_dict,
                                              metadata, clock, oks, i + 1)
                  IN  [coll |-> rest.coll,
                       success_count |-> rest.success_count + (IF one.ret THEN 1 ELSE 0)]

\* history: a successful save of id with these comments
RecordSave(last, id, comments) ==
    DictSet(last, id, [comments |-> comments,
                       saves |-> IF id \in DOMAIN last THEN last[id].saves + 1 ELSE 1])

\* history: the successful saves of one save_batch call, in order
RECURSIVE RecordBatch(_, _, _, _, _)
RecordBatch(last, posts_data, comments_dict, oks, i) ==
    IF i > Len(posts_data) THEN last
    ELSE LET post_id == DerivePostId(posts_data[i])
         IN  RecordBatch(IF Truthy(post_id) /\ oks[i]
                         THEN RecordSave(last, Str(post_id),
                                         DictGetDefault(comments_dict, Str(post_id), <<>>))
                         ELSE last,
                         posts_data, comments_dict, oks, i + 1)

\* save_batch(platform, posts_data, comments_dict, metadata)
save_batch(coll, posts_data, comments_dict, metadata, clock, oks) ==
    save_batch_from(coll, posts_data, comments_dict, metadata, clock, oks, 1)

(***************************************************************************)
(* CrawlerWrapper._capture_save_data on the lists of one wrapper.          *)
(***************************************************************************)
\* a capture function that keeps one post per identifier
capture_save_data_once_per_id(wrapper, post_data, comments_data) ==
    LET post_id == DerivePostId(post_data)
    IN  IF Truthy(post_id)
        THEN [wrapper EXCEPT
                !.captured_posts = IF Str(post_id) \in DOMAIN wrapper.captured_comments
                                   THEN @ ELSE Append(@, post_data),
                !.captured_comments = DictSet(@, Str(post_id), comments_data)]
        ELSE wrapper

capture_save_data(wrapper, post_data, comments_data) ==
    LET post_id == DerivePostId(post_data)
    IN  IF Truthy(post_id)
        THEN [wrapper EXCEPT
                !.captured_posts = Append(@, post_data),
                !.captured_comments = DictSet(@, Str(post_id), comments_data)]
        ELSE wrapper

(***************************************************************************)
(* The state of the server.                                                *)
(***************************************************************************)
VARIABLES
    tasks,          \* the TaskStatus objects, in creation order
    reqs,           \* reqs[t]: the CrawlRequest task t's background unit runs
    current_task,   \* TaskExecutor._current_task: 0 (None) or an index of tasks
    bg,             \* bg[t]: the locals and position of task t's background unit
    config,         \* the attributes of the config module
    save_data,      \* save_data[p]: the save hook of platform p's store module
    db,             \* db[p]: the collection {p}_media_crawler
    now,            \* the wall clock datetime.now() reads
    response,       \* the last response of the control surface
    call,           \* a call made on one component on its own: its arguments
                    \* and, once it has returned, what it returned
    hist            \* history, read by no step of the program:
                    \*   visits[t]       the run_with_capture calls and returns of task t
                    \*   crawl_failed[t] the <<round, position>> of the first failed
                    \*                   run of t, while t's unit is alive
                    \*   txn[t]          the config transaction of t's current platform
                    \*   last_saved[p]   per post_id, the last successful save
                    \*   calls           the calls made on the persistence handler
                    \*   statuses[t]     the values assigned to t's status, in order

vars == <<tasks, reqs, current_task, bg, config, save_data, db, now, response, call, hist>>

\* the requests the clients send while other tasks may be active: one round
\* over two platforms, two rounds over one platform with a caller-supplied
\* task_id, an unsupported platform, and keyword groups that are all empty
Requests ==
    { [platforms |-> <<"xhs", "wb">>,
       keyword_groups |-> << <<"a">> >>,
       config |-> OverrideCrawlerConfig,
       task_id |-> None],
      [platforms |-> <<"wb">>,
       keyword_groups |-> << <<"a", "b">>, <<"c">> >>,
       config |-> DefaultCrawlerConfig,
       task_id |-> PyStr("job")],
      [platforms |-> <<"douban">>,
       keyword_groups |-> << <<"a">> >>,
       config |-> DefaultCrawlerConfig,
       task_id |-> None],
      [platforms |-> <<"xhs">>,
       keyword_groups |-> << <<>> >>,
       config |-> DefaultCrawlerConfig,
       task_id |-> None] }

\* two rounds over two platforms
EndToEndRequest ==
    [platforms |-> <<"xhs", "wb">>,
     keyword_groups |-> << <<"a">>, <<"b">> >>,
     config |-> OverrideCrawlerConfig,
     task_id |-> None]

\* the requests of the single run explored in depth: those above, the
\* end-to-end scenario of two rounds over two platforms, a request one of
\* whose keyword groups is empty, and a request that names a platform twice
RunRequests ==
    Requests \cup
    { EndToEndRequest,
      [platforms |-> <<"xhs">>,
       keyword_groups |-> << <<"a">>, <<>> >>,
       config |-> DefaultCrawlerConfig,
       task_id |-> None],
      [platforms |-> <<"wb", "wb">>,
       keyword_groups |-> << <<"a">> >>,
       config |-> DefaultCrawlerConfig,
       task_id |-> None] }

\* what a Crawler hands to the save hook: a post keyed by post_id, a post
\* keyed by aweme_id only, and a post without any identifier
CrawlEmissions ==
    { [post |-> [post_id |-> PyStr("A"), title |-> PyStr("x")], comments |-> <<"c1">>],
      [post |-> [aweme_id |-> PyStr("B")], comments |-> <<>>],
      [post |-> [title |-> PyStr("y")], comments |-> <<"c2">>] }

\* the hook a store module is shipped with, and a module without the attribute
OriginalSink == [kind |-> "original", t |-> 0, n |-> 0]
NoSink == [kind |-> "absent", t |-> 0, n |-> 0]
\* the bound method _capture_save_data of the n-th wrapper of task t
CaptureSink(t, n) == [kind |-> "capture", t |-> t, n |-> n]

\* str(uuid.uuid4()): a fresh identifier for the k-th task object
uuid4(k) == "uuid-" \o ToString(k)

\* progress is a float; the model keeps it as the exact fraction num/den
Fraction(num, den) == [num |-> num, den |-> den]
FracEq(a, b) == a.num * b.den = b.num * a.den
FracLeq(a, b) == a.num * b.den <= b.num * a.den

\* a constructor that counts the first round as begun
TaskStatus_in_round_one(task_id, total_rounds) ==
    [task_id |-> task_id,
     total_rounds |-> total_rounds,
     current_round |-> 1,
     current_platform |-> "None",
     status |-> "pending",
     progress |-> Fraction(0, 1),
     error_message |-> "None",
     start_time |-> -1,
     end_time |-> -1]

\* TaskStatus.__init__
TaskStatus(task_id, total_rounds) ==
    [task_id |-> task_id,
     total_rounds |-> total_rounds,
     current_round |-> 0,
     current_platform |-> "None",
     status |-> "pending",
     progress |-> Fraction(0, 1),
     error_message |-> "None",
     start_time |-> -1,
     end_time |-> -1]

\* TaskStatus.to_dict
to_dict(task) ==
    [task_id |-> task.task_id,
     status |-> task.status,
     current_round |-> task.current_round,
     current_platform |-> task.current_platform,
     total_rounds |-> task.total_rounds,
     progress |-> task.progress,
     error_message |-> task.error_message,
     start_time |-> task.start_time,
     end_time |-> task.end_time]

\* a CrawlerWrapper as __init__ leaves it; n tells the wrappers of a task apart
NewWrapper(n) ==
    [n |-> n, captured_posts |-> <<>>, captured_comments |-> <<>>,
     original_methods |-> <<>>]

\* the dict run_with_capture returns; NoResult before the first run
NoResult == [posts |-> <<>>, comments |-> <<>>, success |-> FALSE, error |-> "None"]

\* str(e) of an exception a collaborator raises
ExcText == "error"

\* history: save_batch has not been called
NoBatch == [called |-> FALSE]

\* history of one config transaction: the settings before open while it is
\* open, what the Crawler has handed to the wrapper's capture function and,
\* once the run inside it has returned, whether that run ended by an
\* exception, how many posts its wrapper had captured by then, and the
\* arguments of the save_batch call that followed
NoTxn == [before |-> <<>>, raised |-> FALSE, captured |-> 0, hooked |-> <<>>,
          batch |-> NoBatch]

\* the locals of a background unit that create_task has scheduled
NewUnit ==
    [pc |-> "scheduled",
     round_idx |-> 0,
     pidx |-> 0,
     tokens |-> <<>>,
     ctxvar |-> "",
     wrapper |-> NewWrapper(0),
     browser |-> "none",
     emitted |-> 0,
     result |-> NoResult,
     metadata |-> <<>>,
     i |-> 0,
     success_count |-> 0,
     sleep_time |-> 0]

\* no request has been answered yet
NoResponse == [op |-> "none", code |-> 0, detail |-> "", body |-> <<>>]

\* no component is driven on its own
NoCall == [op |-> "none"]

Init ==
    /\ tasks = <<>>
    /\ reqs = <<>>
    /\ current_task = 0
    /\ bg = <<>>
    /\ config = ConfigWithSortType
    /\ save_data = [p \in Platforms |-> OriginalSink]
    /\ db = [p \in Platforms |-> <<>>]
    /\ now = 0
    /\ response = NoResponse
    /\ call = NoCall
    /\ hist = [visits |-> <<>>, crawl_failed |-> <<>>, txn |-> <<>>,
               last_saved |-> [p \in Platforms |-> <<>>], calls |-> 0,
               statuses |-> <<>>]

\* an is_running that is true whenever a task is tracked
is_running_when_tracked == current_task # 0

\* is_running that never sees a running task
is_running_never == FALSE

\* TaskExecutor.is_running
is_running ==
    current_task # 0 /\ tasks[current_task].status = "running"

(***************************************************************************)
(* TaskExecutor._run_task_background.  The operators below transform the   *)
(* record S of everything a background unit reads and writes; one action   *)
(* runs the unit from one suspension point to the next.                    *)
(*                                                                         *)
(* Positions (bg[t].pc):                                                   *)
(*   scheduled  created by create_task, not started                        *)
(*   crawl      awaiting crawler.start()                      (line 175)   *)
(*   close      awaiting crawler.browser_context.close()      (line 180)   *)
(*   save       awaiting save_post_with_comments for post i   (line 106)   *)
(*   index      awaiting create_indexes                       (line 342)   *)
(*   psleep     awaiting the sleep between platforms          (line 348)   *)
(*   rsleep     awaiting the sleep between rounds             (line 361)   *)
(*   done       the coroutine has returned                                 *)
(***************************************************************************)
State ==
    [tasks |-> tasks, current_task |-> current_task, bg |-> bg, config |-> config,
     save_data |-> save_data, db |-> db, hist |-> hist]

Install(S) ==
    /\ tasks' = S.tasks
    /\ current_task' = S.current_task
    /\ bg' = S.bg
    /\ config' = S.config
    /\ save_data' = S.save_data
    /\ db' = S.db
    /\ hist' = S.hist

\* random.uniform(a, b), frac being the random draw in [0, 1]
uniform(a, b, frac) == a + (b - a) * frac

\* the first position j >= i of posts_data whose post has an identifier
\* (save_batch passes over the others without suspending), Len + 1 if none
RECURSIVE NextSavable(_, _)
NextSavable(posts_data, i) ==
    IF i > Len(posts_data) THEN i
    ELSE IF Truthy(DerivePostId(posts_data[i])) THEN i
    ELSE NextSavable(posts_data, i + 1)

\* a finally clause that returns without clearing the slot
finally_keeps_slot(S, t) ==
    [S EXCEPT !.bg[t] = [NewUnit EXCEPT !.pc = "done"],
              !.hist.txn[t] = NoTxn,
              !.hist.crawl_failed[t] = <<>>]

\* the finally clause: the slot is cleared when it holds a task with this
\* unit's task_id, and the coroutine returns
finally_release(S, t) ==
    LET held == S.current_task # 0
                /\ S.tasks[S.current_task].task_id = S.tasks[t].task_id
    IN  [S EXCEPT !.current_task = IF held THEN 0 ELSE @,
                  !.bg[t] = [NewUnit EXCEPT !.pc = "done"],
                  !.hist.txn[t] = NoTxn,
                  !.hist.crawl_failed[t] = <<>>]

\* lines 363-367, then the finally clause
complete(S, t) ==
    finally_release(
        [S EXCEPT !.tasks[t].status = "completed",
                  !.hist.statuses[t] = Append(@, "completed"),
                  !.tasks[t].progress = Fraction(100, 1),
                  !.tasks[t].end_time = now], t)

\* an except clause that puts the task back to pending
fail_back_to_pending(S, t, message) ==
    finally_release(
        [S EXCEPT !.tasks[t].status = "pending",
                  !.hist.statuses[t] = Append(@, "pending"),
                  !.tasks[t].error_message = message,
                  !.tasks[t].end_time = now], t)

\* lines 369-373, then the finally clause
fail(S, t, message) ==
    finally_release(
        [S EXCEPT !.tasks[t].status = "failed",
                  !.hist.statuses[t] = Append(@, "failed"),
                  !.tasks[t].error_message = message,
                  !.tasks[t].end_time = now], t)

\* a round loop that sleeps before it updates the progress
end_round_sleeps_first(S, t, frac) ==
    LET r == S.bg[t].round_idx
        total == S.tasks[t].total_rounds
    IN  IF r < total
        THEN [S EXCEPT !.bg[t].pc = "rsleep",
                       !.bg[t].sleep_time = uniform(300, 600, frac)]
        ELSE complete([S EXCEPT !.tasks[t].progress = Fraction(r * 100, total)], t)

\* a progress update that leaves out the factor 100
end_round_without_percent(S, t, frac) ==
    LET r == S.bg[t].round_idx
        total == S.tasks[t].total_rounds
        S1 == [S EXCEPT !.tasks[t].progress = Fraction(r, total)]
    IN  IF r < total
        THEN [S1 EXCEPT !.bg[t].pc = "rsleep",
                        !.bg[t].sleep_time = uniform(300, 600, frac)]
        ELSE complete(S1, t)

\* lines 354-361 and, after the last round, completion
end_round(S, t, frac) ==
    LET r == S.bg[t].round_idx
        total == S.tasks[t].total_rounds
        S1 == [S EXCEPT !.tasks[t].progress = Fraction(r * 100, total)]
    IN  IF r < total
        THEN [S1 EXCEPT !.bg[t].pc = "rsleep",
                        !.bg[t].sleep_time = uniform(300, 600, frac)]
        ELSE complete(S1, t)

\* a unit that numbers the rounds from zero in the metadata
after_run_round_from_zero(S, t, result, raised) ==
    LET b == S.bg[t]
        rc == restore_config(S.config, b.ctxvar, b.tokens)
        first == NextSavable(result.posts, 1)
        metadata == [task_id |-> S.tasks[t].task_id,
                     round |-> b.round_idx - 1,
                     keywords |-> reqs[t].keyword_groups[b.round_idx],
                     crawl_time |-> now]
        S1 == [S EXCEPT !.config = rc.config,
                        !.bg[t].ctxvar = rc.ctxvar,
                        !.bg[t].tokens = <<>>,
                        !.bg[t].wrapper = NewWrapper(b.wrapper.n),
                        !.bg[t].result = result,
                        !.bg[t].success_count = 0,
                        !.hist.visits[t] = Append(@, <<"end", b.round_idx, b.pidx>>),
                        !.hist.crawl_failed[t] =
                            IF @ = <<>> /\ ~result.success THEN <<b.round_idx, b.pidx>> ELSE @,
                        !.hist.txn[t] = [NoTxn EXCEPT
                                            !.raised = raised,
                                            !.captured = Len(b.wrapper.captured_posts),
                                            !.hooked = S.hist.txn[t].hooked,
                                            !.batch = IF result.success
                                                      THEN [called |-> TRUE,
                                                            posts |-> result.posts,
                                                            comments |-> result.comments,
                                                            metadata |-> metadata]
                                                      ELSE NoBatch]]
    IN  IF result.success /\ first <= Len(result.posts)
        THEN [S1 EXCEPT !.bg[t].pc = "save",
                        !.bg[t].i = first,
                        !.bg[t].metadata = metadata]
        ELSE [S1 EXCEPT !.bg[t].pc = "index"]

\* run_with_capture returns result (lines 186-200); then lines 318-342: the
\* config is restored, and save_batch runs up to its first save that awaits
\* the store
after_run(S, t, result, raised) ==
    LET b == S.bg[t]
        rc == restore_config(S.config, b.ctxvar, b.tokens)
        first == NextSavable(result.posts, 1)
        metadata == [task_id |-> S.tasks[t].task_id,
                     round |-> b.round_idx,
                     keywords |-> reqs[t].keyword_groups[b.round_idx],
                     crawl_time |-> now]
        S1 == [S EXCEPT !.config = rc.config,
                        !.bg[t].ctxvar = rc.ctxvar,
                        !.bg[t].tokens = <<>>,
                        !.bg[t].wrapper = NewWrapper(b.wrapper.n),
                        !.bg[t].result = result,
                        !.bg[t].success_count = 0,
                        !.hist.visits[t] = Append(@, <<"end", b.round_idx, b.pidx>>),
                        !.hist.crawl_failed[t] =
                            IF @ = <<>> /\ ~result.success THEN <<b.round_idx, b.pidx>> ELSE @,
                        !.hist.txn[t] = [NoTxn EXCEPT
                                            !.raised = raised,
                                            !.captured = Len(b.wrapper.captured_posts),
                                            !.hooked = S.hist.txn[t].hooked,
                                            !.batch = IF result.success
                                                      THEN [called |-> TRUE,
                                                            posts |-> result.posts,
                                                            comments |-> result.comments,
                                                            metadata |-> metadata]
                                                      ELSE NoBatch]]
    IN  IF result.success /\ first <= Len(result.posts)
        THEN [S1 EXCEPT !.bg[t].pc = "save",
                        !.bg[t].i = first,
                        !.bg[t].metadata = metadata]
        ELSE [S1 EXCEPT !.bg[t].pc = "index"]

\* the dict run_with_capture returns when the Crawler has completed
success_result(wrapper) ==
    [posts |-> wrapper.captured_posts, comments |-> wrapper.captured_comments,
     success |-> TRUE, error |-> "None"]

\* an except clause that hands back what the wrapper had captured
failure_result_keeps_captured(wrapper, e) ==
    [posts |-> wrapper.captured_posts, comments |-> wrapper.captured_comments,
     success |-> FALSE, error |-> e]

\* the dict run_with_capture returns from its except clause
failure_result(wrapper, e) ==
    [posts |-> <<>>, comments |-> <<>>, success |-> FALSE, error |-> e]

\* CrawlerWrapper._setup_data_capture on platform's store module
setup_data_capture(S, t, platform) ==
    IF S.save_data[platform].kind = "absent"
    THEN S
    ELSE [S EXCEPT !.bg[t].wrapper.original_methods = [save_data |-> S.save_data[platform]],
                   !.save_data[platform] = CaptureSink(t, S.bg[t].wrapper.n)]

\* lines 303-316 and run_with_capture up to crawler.start(): outcome tells
\* whether create_crawler or _setup_data_capture raises
begin_platform(S, t, p, outcome) ==
    LET req == reqs[t]
        r == S.bg[t].round_idx
        platform == req.platforms[p]
        inj == inject_config(S.config, S.bg[t].ctxvar, platform,
                             req.keyword_groups[r], req.config)
        S1 == [S EXCEPT !.tasks[t].current_platform = platform,
                        !.config = inj.config,
                        !.bg[t].ctxvar = inj.ctxvar,
                        !.bg[t].tokens = inj.tokens,
                        !.bg[t].pidx = p,
                        !.bg[t].wrapper = NewWrapper(S.bg[t].wrapper.n + 1),
                        !.bg[t].browser = "none",
                        !.bg[t].emitted = 0,
                        !.bg[t].result = NoResult,
                        !.bg[t].i = 0,
                        !.hist.visits[t] = Append(@, <<"begin", r, p>>),
                        !.hist.txn[t] = [NoTxn EXCEPT !.before = S.config]]
    IN  CASE outcome = "started" ->
                [setup_data_capture(S1, t, platform) EXCEPT !.bg[t].pc = "crawl"]
          [] outcome = "create_raises" ->
                after_run(S1, t, failure_result(S1.bg[t].wrapper, ExcText), TRUE)
          [] outcome = "setup_raises" ->
                after_run(S1, t, failure_result(S1.bg[t].wrapper, ExcText), TRUE)

\* a round loop that sets progress back when a round begins
begin_round_resets_progress(S, t, r, outcome) ==
    begin_platform([S EXCEPT !.tasks[t].current_round = r,
                             !.tasks[t].progress = Fraction(0, 1),
                             !.bg[t].round_idx = r], t, 1, outcome)

\* a round loop that starts each round at the last platform
begin_round_from_last(S, t, r, outcome) ==
    begin_platform([S EXCEPT !.tasks[t].current_round = r,
                             !.bg[t].round_idx = r], t, Len(reqs[t].platforms), outcome)

\* a round loop that counts the rounds from zero in the task's record
begin_round_counts_from_zero(S, t, r, outcome) ==
    begin_platform([S EXCEPT !.tasks[t].current_round = r - 1,
                             !.bg[t].round_idx = r], t, 1, outcome)

\* line 297-298: the next iteration of the round loop
begin_round(S, t, r, outcome) ==
    begin_platform([S EXCEPT !.tasks[t].current_round = r,
                             !.bg[t].round_idx = r], t, 1, outcome)

\* a platform loop that a failed run breaks out of
next_platform_stops_on_failure(S, t, outcome, frac) ==
    IF S.bg[t].pidx < Len(reqs[t].platforms) /\ S.hist.crawl_failed[t] = <<>>
    THEN begin_platform(S, t, S.bg[t].pidx + 1, outcome)
    ELSE end_round(S, t, frac)

\* the end of one iteration of the platform loop, without a sleep
next_platform(S, t, outcome, frac) ==
    IF S.bg[t].pidx < Len(reqs[t].platforms)
    THEN begin_platform(S, t, S.bg[t].pidx + 1, outcome)
    ELSE end_round(S, t, frac)

(***************************************************************************)
(* The control surface.                                                    *)
(***************************************************************************)
\* what FastAPI answers when the handler of op raises
\* HTTPException(status_code, detail) and no clause intercepts it
HTTPException(op, status_code, detail) ==
    [op |-> op, code |-> status_code, detail |-> detail, body |-> <<>>]

\* str(e) of an HTTPException
StrHTTPException(status_code, detail) == ToString(status_code) \o ": " \o detail

\* the last clause of start_crawl's try (lines 204-209): `except Exception`
\* also catches the HTTPException the validation raises, and answers 500
except_Exception(text) ==
    HTTPException("start_crawl", 500, "Internal server error: " \o text)

\* TaskExecutor.execute_crawl_task, as start_crawl calls it: the admission
\* under the lock and create_task, then lines 185-193; the RuntimeError
\* raised when the tracked task is running reaches start_crawl's last clause
execute_crawl_task(request) ==
    IF current_task # 0 /\ tasks[current_task].status = "running"
    THEN /\ response' = except_Exception("Another task is currently running")
         /\ UNCHANGED <<tasks, reqs, current_task, bg, hist>>
    ELSE LET k == Len(tasks) + 1
             task_id == IF Truthy(request.task_id) THEN Str(request.task_id) ELSE uuid4(k)
         IN  /\ Len(tasks) < MaxTasks
             /\ tasks' = Append(tasks, TaskStatus(task_id, Len(request.keyword_groups)))
             /\ reqs' = Append(reqs, request)
             /\ current_task' = k
             /\ bg' = Append(bg, NewUnit)
             /\ hist' = [visits |-> Append(hist.visits, <<>>),
                         crawl_failed |-> Append(hist.crawl_failed, <<>>),
                         txn |-> Append(hist.txn, NoTxn),
                         last_saved |-> hist.last_saved,
                         calls |-> hist.calls,
                         statuses |-> Append(hist.statuses, <<"pending">>)]
             /\ response' = [op |-> "start_crawl", code |-> 200, detail |-> "",
                             body |-> [task_id |-> task_id,
                                       status |-> "started",
                                       platforms |-> request.platforms,
                                       total_rounds |-> Len(request.keyword_groups)]]

\* POST /start_crawl
start_crawl(request) ==
    /\ UNCHANGED <<config, save_data, db, now, call>>
    /\ IF is_running
       THEN /\ response' = [op |-> "start_crawl", code |-> 423,
                            detail |-> "Task queue is full. Another task is currently running.",
                            body |-> [current_task |-> to_dict(tasks[current_task])]]
            /\ UNCHANGED <<tasks, reqs, current_task, bg, hist>>
       ELSE IF {request.platforms[j] : j \in 1..Len(request.platforms)} \ valid_platforms # {}
       THEN /\ response' = except_Exception(StrHTTPException(400, "Invalid platforms"))
            /\ UNCHANGED <<tasks, reqs, current_task, bg, hist>>
       ELSE IF Len(request.keyword_groups) = 0
               \/ \A j \in 1..Len(request.keyword_groups) : Len(request.keyword_groups[j]) = 0
       THEN /\ response' = except_Exception(StrHTTPException(400,
                                "At least one non-empty keyword group is required"))
            /\ UNCHANGED <<tasks, reqs, current_task, bg, hist>>
       \* lines 175-180 reject a request without any keyword, which the
       \* test above has already rejected
       ELSE execute_crawl_task(request)

\* a get_task_status that does not compare the identifier
get_task_status_of_any(task_id) ==
    IF current_task # 0
    THEN to_dict(tasks[current_task])
    ELSE None

\* TaskExecutor.get_task_status: the snapshot, or None
get_task_status(task_id) ==
    IF current_task # 0 /\ tasks[current_task].task_id = task_id
    THEN to_dict(tasks[current_task])
    ELSE None

\* GET /task_status/{task_id}
task_status(task_id) ==
    /\ response' = LET snapshot == get_task_status(task_id)
                   IN  IF DOMAIN snapshot = DOMAIN None
                       THEN HTTPException("task_status", 404, "Task " \o task_id
                                                              \o " not found or has expired")
                       ELSE [op |-> "task_status", code |-> 200, detail |-> "",
                             body |-> snapshot]
    /\ UNCHANGED <<tasks, reqs, current_task, bg, config, save_data, db, now, call, hist>>

\* an is_running endpoint that aborts the task it reports
check_if_running_cancels ==
    /\ response' = [op |-> "is_running", code |-> 200, detail |-> "",
                    body |-> [is_running |-> is_running,
                              current_task |-> IF is_running /\ current_task # 0
                                               THEN to_dict(tasks[current_task])
                                               ELSE None]]
    /\ tasks' = IF current_task # 0 /\ tasks[current_task].status = "running"
                THEN [tasks EXCEPT ![current_task].status = "failed"]
                ELSE tasks
    /\ UNCHANGED <<reqs, current_task, bg, config, save_data, db, now, call, hist>>

\* GET /is_running: is_running() and, when it is true, the snapshot of the
\* tracked task; the handler does not suspend between the two reads
check_if_running ==
    /\ response' = [op |-> "is_running", code |-> 200, detail |-> "",
                    body |-> [is_running |-> is_running,
                              current_task |-> IF is_running /\ current_task # 0
                                               THEN to_dict(tasks[current_task])
                                               ELSE None]]
    /\ UNCHANGED <<tasks, reqs, current_task, bg, config, save_data, db, now, call, hist>>

(***************************************************************************)
(* The steps of a background unit.                                         *)
(***************************************************************************)
Outcomes == {"started", "create_raises", "setup_raises"}

\* the unit starts: lines 286-294, then the first round up to its first
\* suspension; db_ok is FALSE when MediaCrawlerDBHandler() raises
BgStart(t, db_ok, outcome) ==
    /\ bg[t].pc = "scheduled"
    /\ LET S1 == [State EXCEPT !.tasks[t].status = "running",
                               !.hist.statuses[t] = Append(@, "running"),
                               !.tasks[t].start_time = now]
       IN  Install(IF ~db_ok THEN fail(S1, t, "MediaCrawlerDBHandler")
                   ELSE IF Len(reqs[t].keyword_groups) = 0 THEN complete(S1, t)
                   ELSE begin_round(S1, t, 1, outcome))
    /\ UNCHANGED <<reqs, now, response, call>>

\* the Crawler calls the save hook of the platform it crawls: the capture
\* function of the wrapper that is installed there appends to that wrapper's
\* lists, which are the lists of the result once its run has returned
CrawlerSaves(t, e) ==
    /\ bg[t].pc = "crawl"
    /\ bg[t].emitted < MaxCapture
    /\ LET hook == save_data[reqs[t].platforms[bg[t].pidx]]
           u == hook.t
           lists == IF bg[u].pc = "save"
                    THEN [captured_posts |-> bg[u].result.posts,
                          captured_comments |-> bg[u].result.comments]
                    ELSE [captured_posts |-> bg[u].wrapper.captured_posts,
                          captured_comments |-> bg[u].wrapper.captured_comments]
           after == capture_save_data(lists, e.post, e.comments)
       IN  /\ hook.kind = "capture"
           /\ bg[u].pc \in {"crawl", "close", "save"}
           /\ bg[u].wrapper.n = hook.n
           /\ bg' = [[bg EXCEPT ![t].emitted = @ + 1] EXCEPT
                       ![u] = IF bg[u].pc = "save"
                              THEN [@ EXCEPT !.result.posts = after.captured_posts,
                                             !.result.comments = after.captured_comments]
                              ELSE [@ EXCEPT !.wrapper.captured_posts = after.captured_posts,
                                             !.wrapper.captured_comments = after.captured_comments]]
    /\ hist' = [hist EXCEPT !.txn[save_data[reqs[t].platforms[bg[t].pidx]].t].hooked =
                                Append(@, e)]
    /\ UNCHANGED <<tasks, reqs, current_task, config, save_data, db, now, response, call>>

\* crawler.start() returns or raises; browser tells whether the crawler
\* holds a browser_context by then
CrawlerStartEnds(t, ok, browser) ==
    /\ bg[t].pc = "crawl"
    /\ LET S1 == [State EXCEPT !.bg[t].browser = browser]
       IN  Install(IF ~ok THEN after_run(S1, t, failure_result(bg[t].wrapper, ExcText), TRUE)
                   ELSE IF browser = "open" THEN [S1 EXCEPT !.bg[t].pc = "close"]
                   ELSE after_run(S1, t, success_result(bg[t].wrapper), FALSE))
    /\ UNCHANGED <<reqs, now, response, call>>

\* browser_context.close() returns or raises; the error is swallowed
BrowserCloseEnds(t, ok) ==
    /\ bg[t].pc = "close"
    /\ Install(after_run([State EXCEPT !.bg[t].browser = "closed"], t,
                         success_result(bg[t].wrapper), FALSE))
    /\ UNCHANGED <<reqs, now, response, call>>

\* save_post_with_comments for post i returns; save_batch goes on to the
\* next post that has an identifier, or returns
SaveEnds(t, store_ok) ==
    /\ bg[t].pc = "save"
    /\ LET b == bg[t]
           platform == reqs[t].platforms[b.pidx]
           posts == b.result.posts
           post_data == posts[b.i]
           comments == DictGetDefault(b.result.comments,
                                      Str(DerivePostId(post_data)), <<>>)
           one == save_post_with_comments(db[platform], post_data, comments,
                                          b.metadata, now, store_ok)
           j == NextSavable(posts, b.i + 1)
           S1 == [State EXCEPT !.db[platform] = one.coll,
                               !.bg[t].success_count = @ + (IF one.ret THEN 1 ELSE 0),
                               !.hist.last_saved[platform] =
                                   IF one.ret
                                   THEN RecordSave(@, Str(DerivePostId(post_data)), comments)
                                   ELSE @]
       IN  Install(IF j <= Len(posts)
                   THEN [S1 EXCEPT !.bg[t].i = j]
                   ELSE [S1 EXCEPT !.bg[t].pc = "index",
                                   !.bg[t].i = 0,
                                   !.bg[t].metadata = <<>>,
                                   !.bg[t].result.posts = <<>>,
                                   !.bg[t].result.comments = <<>>])
    /\ UNCHANGED <<reqs, now, response, call>>

\* create_indexes returns (it swallows its errors); lines 344-348, and
\* without a sleep the platform loop goes on
CreateIndexesEnds(t, outcome, frac) ==
    /\ bg[t].pc = "index"
    /\ LET platforms == reqs[t].platforms
           platform == platforms[bg[t].pidx]
           S1 == [State EXCEPT !.bg[t].browser = "none",
                               !.bg[t].result = NoResult,
                               !.hist.txn[t] = NoTxn]
       IN  Install(IF platform # platforms[Len(platforms)]
                   THEN [S1 EXCEPT !.bg[t].pc = "psleep",
                                   !.bg[t].sleep_time = uniform(60, 120, frac)]
                   ELSE next_platform(S1, t, outcome, frac))
    /\ UNCHANGED <<reqs, now, response, call>>

\* the sleep between platforms returns
PlatformSleepEnds(t, outcome, frac) ==
    /\ bg[t].pc = "psleep"
    /\ Install(next_platform([State EXCEPT !.bg[t].sleep_time = 0], t, outcome, frac))
    /\ UNCHANGED <<reqs, now, response, call>>

\* a sleep between rounds that never returns
RoundSleepNeverEnds(t, outcome) ==
    /\ bg[t].pc = "rsleep"
    /\ UNCHANGED vars

\* the sleep between rounds returns
RoundSleepEnds(t, outcome) ==
    /\ bg[t].pc = "rsleep"
    /\ Install(begin_round([State EXCEPT !.bg[t].sleep_time = 0], t,
                           bg[t].round_idx + 1, outcome))
    /\ UNCHANGED <<reqs, now, response, call>>

\* the steps every specification shares: the control surface and the
\* background units, with Crawlers that do not call the save hook
Core ==
    \/ \E t \in 1..Len(tasks), db_ok \in BOOLEAN, outcome \in Outcomes :
            BgStart(t, db_ok, outcome)
    \/ \E t \in 1..Len(tasks), ok \in BOOLEAN, browser \in {"none", "open"} :
            CrawlerStartEnds(t, ok, browser)
    \/ \E t \in 1..Len(tasks), ok \in BOOLEAN : BrowserCloseEnds(t, ok)
    \/ \E t \in 1..Len(tasks), outcome \in Outcomes, frac \in {0, 1} :
            CreateIndexesEnds(t, outcome, frac)
    \/ \E t \in 1..Len(tasks), outcome \in Outcomes, frac \in {0, 1} :
            PlatformSleepEnds(t, outcome, frac)
    \/ \E t \in 1..Len(tasks), outcome \in Outcomes : RoundSleepEnds(t, outcome)

\* The server under concurrent submissions: up to MaxTasks tasks are
\* admitted, and the Crawlers save nothing through the hook.
Next ==
    \/ \E request \in Requests : start_crawl(request)
    \/ Core

Spec == Init /\ [][Next]_vars

\* the steps of the background unit of the t-th task
UnitStep(t) ==
    /\ t \in 1..Len(tasks)
    /\ \/ \E db_ok \in BOOLEAN, outcome \in Outcomes : BgStart(t, db_ok, outcome)
       \/ \E ok \in BOOLEAN, browser \in {"none", "open"} : CrawlerStartEnds(t, ok, browser)
       \/ \E ok \in BOOLEAN : BrowserCloseEnds(t, ok)
       \/ \E outcome \in Outcomes, frac \in {0, 1} : CreateIndexesEnds(t, outcome, frac)
       \/ \E outcome \in Outcomes, frac \in {0, 1} : PlatformSleepEnds(t, outcome, frac)
       \/ \E outcome \in Outcomes : RoundSleepEnds(t, outcome)

\* Clients that submit the next request once the units of the earlier
\* tasks have returned.
NextLive ==
    \/ /\ \A t \in 1..Len(tasks) : bg[t].pc = "done"
       /\ start_crawl(EndToEndRequest)
    \/ Core

\* The server when the event loop runs every scheduled unit and every
\* Crawler invocation, persistence call and sleep a unit awaits returns.
SpecLive == Init /\ [][NextLive]_vars /\ \A t \in 1..MaxTasks : WF_vars(UnitStep(t))

\* the task identifiers clients poll: generated ones, the caller-supplied
\* one, and one no task has
PolledIds == {uuid4(k) : k \in 1..MaxTasks} \cup {"job", "nobody"}

\* The server with clients that also poll the status of tasks and ask
\* whether a task is running.
NextApi ==
    \/ \E request \in Requests : start_crawl(request)
    \/ \E task_id \in PolledIds : task_status(task_id)
    \/ check_if_running
    \/ Core

SpecApi == Init /\ [][NextApi]_vars

\* One run in depth: a single task is admitted, its Crawlers call the save
\* hook and the captured posts are persisted.
NextRun ==
    \/ \E request \in RunRequests : start_crawl(request) /\ Len(tasks') <= 1
    \/ Core
    \/ \E t \in 1..Len(tasks), e \in CrawlEmissions : CrawlerSaves(t, e)
    \/ \E t \in 1..Len(tasks), store_ok \in BOOLEAN : SaveEnds(t, store_ok)

\* the settings and the store modules the process may start with
InitRun ==
    /\ tasks = <<>>
    /\ reqs = <<>>
    /\ current_task = 0
    /\ bg = <<>>
    /\ config \in InitialConfigs
    /\ save_data \in [Platforms -> {OriginalSink, NoSink}]
    /\ db = [p \in Platforms |-> <<>>]
    /\ now = 0
    /\ response = NoResponse
    /\ call = NoCall
    /\ hist = [visits |-> <<>>, crawl_failed |-> <<>>, txn |-> <<>>,
               last_saved |-> [p \in Platforms |-> <<>>], calls |-> 0,
               statuses |-> <<>>]

SpecRun == InitRun /\ [][NextRun]_vars

\* crawler.start() returns or raises, no browser to close, and then
\* restore_config raises at line 319: the module attributes are written
\* (lines 119-133) and crawler_type_var.reset (line 137) raises.  The
\* except clause of lines 350-352 catches it, restore_config({}) returns at
\* once, and the platform loop goes on without save, index or sleep.
RestoreRaises(t, ok, outcome, frac) ==
    /\ bg[t].pc = "crawl"
    /\ LET b == bg[t]
           rc == restore_config(config, b.ctxvar, b.tokens)
           S1 == [State EXCEPT !.config = rc.config,
                               !.bg[t].tokens = <<>>,
                               !.bg[t].wrapper = NewWrapper(b.wrapper.n),
                               !.bg[t].result = NoResult,
                               !.hist.visits[t] = Append(@, <<"end", b.round_idx, b.pidx>>),
                               !.hist.crawl_failed[t] =
                                   IF @ = <<>> /\ ~ok THEN <<b.round_idx, b.pidx>> ELSE @,
                               !.hist.txn[t] = NoTxn]
       IN  Install(next_platform(S1, t, outcome, frac))
    /\ UNCHANGED <<reqs, now, response, call>>

\* One run in depth with a context variable whose reset may raise.
NextFault ==
    \/ NextRun
    \/ \E t \in 1..Len(tasks), ok \in BOOLEAN, outcome \in Outcomes, frac \in {0, 1} :
            RestoreRaises(t, ok, outcome, frac)

SpecFault == InitRun /\ [][NextFault]_vars

(***************************************************************************)
(* The persistence handler on its own: any caller, any sequence of calls.  *)
(***************************************************************************)
\* posts as callers hand them in: the same identifier under different
\* fields and of different types, an empty field before a usable one, and
\* a post with no usable identifier
DbPosts ==
    { [post_id |-> PyStr("A")],
      [note_id |-> PyStr("A"), id |-> PyStr("Z")],
      [post_id |-> PyStr(""), id |-> PyInt("7")],
      [aweme_id |-> PyStr("7")],
      [id |-> PyInt("0")] }

DbComments == {<<>>, <<"c1">>}

DbMetadata == {None, [task_id |-> "job"]}

\* the batches: posts_data and comments_dict
DbBatches ==
    { [posts |-> <<[post_id |-> PyStr("A")], [aweme_id |-> PyStr("7")]>>,
       comments |-> [k \in {"A"} |-> <<"c2">>]],
      [posts |-> <<[id |-> PyInt("0")], [note_id |-> PyStr("A"), id |-> PyStr("Z")]>>,
       comments |-> [k \in {"A", "7"} |-> <<"c1">>]],
      [posts |-> <<[post_id |-> PyStr(""), id |-> PyInt("7")], [aweme_id |-> PyStr("7")]>>,
       comments |-> [k \in {"7"} |-> <<"c1", "c2">>]] }

\* one save_post_with_comments call
DbSave(platform, post_data, comments, metadata, store_ok) ==
    /\ hist.calls < MaxSaves
    /\ LET one == save_post_with_comments(db[platform], post_data, comments,
                                          metadata, now, store_ok)
       IN  /\ db' = [db EXCEPT ![platform] = one.coll]
           /\ hist' = [hist EXCEPT
                         !.calls = @ + 1,
                         !.last_saved[platform] =
                             IF one.ret
                             THEN RecordSave(@, Str(DerivePostId(post_data)), comments)
                             ELSE @]
    /\ UNCHANGED <<tasks, reqs, current_task, bg, config, save_data, now, response, call>>

\* one save_batch call; the clock does not move within it
DbSaveBatch(platform, batch, metadata, oks) ==
    /\ hist.calls < MaxSaves
    /\ LET all == save_batch(db[platform], batch.posts, batch.comments, metadata, now, oks)
       IN  /\ db' = [db EXCEPT ![platform] = all.coll]
           /\ hist' = [hist EXCEPT
                         !.calls = @ + 1,
                         !.last_saved[platform] =
                             RecordBatch(@, batch.posts, batch.comments, oks, 1)]
    /\ UNCHANGED <<tasks, reqs, current_task, bg, config, save_data, now, response, call>>

\* datetime.now() is the wall clock: it may be set forward or back
ClockChanges(t) ==
    /\ t # now
    /\ now' = t
    /\ UNCHANGED <<tasks, reqs, current_task, bg, config, save_data, db, response, call, hist>>

NextDB ==
    \/ \E platform \in Platforms, post_data \in DbPosts, comments \in DbComments,
          metadata \in DbMetadata, store_ok \in BOOLEAN :
            DbSave(platform, post_data, comments, metadata, store_ok)
    \/ \E platform \in Platforms, batch \in DbBatches, metadata \in DbMetadata,
          oks \in [1..2 -> BOOLEAN] :
            DbSaveBatch(platform, batch, metadata, oks)
    \/ \E t \in 0..MaxClock : ClockChanges(t)

SpecDB == Init /\ [][NextDB]_vars

(***************************************************************************)
(* get_stats_by_platform next to saves.  The handler awaits the store      *)
(* twice, for count_documents and for the aggregation, and a save may come *)
(* between the two.                                                        *)
(***************************************************************************)
\* comments of lengths 0, 1 and 2
StatsComments == {<<>>, <<"c1">>, <<"c1", "c2">>}

\* an aggregation that counts the documents that have comments
aggregate_counts_commented(coll) ==
    IF coll = <<>> THEN <<>>
    ELSE <<[total |-> Cardinality({j \in 1..Len(coll) : coll[j].comment_count > 0})]>>

\* aggregate([{"$group": {"_id": None, "total": {"$sum": "$comment_count"}}}])
\* .to_list(length=1): no group for an empty collection, else one group
RECURSIVE SumCommentCount(_)
SumCommentCount(coll) ==
    IF coll = <<>> THEN 0 ELSE Head(coll).comment_count + SumCommentCount(Tail(coll))

aggregate(coll) ==
    IF coll = <<>> THEN <<>> ELSE <<[total |-> SumCommentCount(coll)]>>

\* what get_stats_by_platform returns from its except clause
ZeroStats(platform) == [platform |-> platform, total_posts |-> 0, total_comments |-> 0]

\* get_stats_by_platform up to the answer of count_documents; at is
\* history: how many saves had been made when count_documents answered
StatsCountEnds(platform, store_ok) ==
    /\ call.op \in {"none", "stats"}
    /\ call' = IF store_ok
               THEN [op |-> "stats_aggregate", platform |-> platform,
                     total_posts |-> Len(db[platform]), at |-> hist.calls]
               ELSE [op |-> "stats", platform |-> platform, answered |-> FALSE,
                     ret |-> ZeroStats(platform), at |-> hist.calls]
    /\ UNCHANGED <<tasks, reqs, current_task, bg, config, save_data, db, now, response, hist>>

\* the aggregation answers and get_stats_by_platform returns
StatsAggregateEnds(store_ok) ==
    /\ call.op = "stats_aggregate"
    /\ LET total_comments == aggregate(db[call.platform])
       IN  call' = IF store_ok
                   THEN [op |-> "stats", platform |-> call.platform, answered |-> TRUE,
                         ret |-> [platform |-> call.platform,
                                  total_posts |-> call.total_posts,
                                  total_comments |-> IF total_comments # <<>>
                                                     THEN total_comments[1].total
                                                     ELSE 0],
                         at |-> call.at]
                   ELSE [op |-> "stats", platform |-> call.platform, answered |-> FALSE,
                         ret |-> ZeroStats(call.platform), at |-> call.at]
    /\ UNCHANGED <<tasks, reqs, current_task, bg, config, save_data, db, now, response, hist>>

NextStats ==
    \/ \E platform \in Platforms, post_data \in DbPosts, comments \in StatsComments,
          store_ok \in BOOLEAN :
            DbSave(platform, post_data, comments, None, store_ok)
    \/ \E platform \in Platforms, store_ok \in BOOLEAN : StatsCountEnds(platform, store_ok)
    \/ \E store_ok \in BOOLEAN : StatsAggregateEnds(store_ok)

SpecStats == Init /\ [][NextStats]_vars

(***************************************************************************)
(* The capture function, save and save_batch applied once to arguments:    *)
(* the initial state holds the arguments, a step makes the call.           *)
(***************************************************************************)
IdFields == {"post_id", "note_id", "aweme_id", "id"}

\* what a field may hold: None, empty and non-empty text, zero and non-zero
IdValues == {None, PyStr(""), PyStr("A"), PyStr("B"), PyInt("0"), PyInt("7")}

\* every post over the four fields, each present or not
ArgPosts == UNION {[F -> IdValues] : F \in SUBSET IdFields}

\* the posts the batches are made of; the last has no usable identifier
BatchPosts ==
    { [post_id |-> PyStr("A")],
      [note_id |-> PyStr("B")],
      [id |-> PyInt("7")],
      [post_id |-> PyStr("")] }

\* the arguments: one post of any shape, or a batch of three posts; oks[i]
\* tells whether the store works for the i-th save
CallArgs ==
    { [op |-> "args", posts |-> <<p>>, comments |-> << <<"c1">> >>, oks |-> <<ok>>,
       platform |-> "", ret |-> <<>>] : p \in ArgPosts, ok \in BOOLEAN }
    \cup
    { [op |-> "args", posts |-> b, comments |-> << <<"c1">>, <<>>, <<"c2">> >>, oks |-> oks,
       platform |-> "", ret |-> <<>>] : b \in [1..3 -> BatchPosts], oks \in [1..3 -> BOOLEAN] }

\* the Crawler hands posts i.. to the capture function of wrapper, in order
RECURSIVE CaptureAll(_, _, _, _)
CaptureAll(wrapper, posts, comments, i) ==
    IF i > Len(posts) THEN wrapper
    ELSE CaptureAll(capture_save_data(wrapper, posts[i], comments[i]), posts, comments, i + 1)

\* the posts go through the capture function of a new wrapper
CallCapture ==
    /\ call.op = "args"
    /\ call' = [call EXCEPT !.op = "captured",
                            !.ret = CaptureAll(NewWrapper(1), call.posts, call.comments, 1)]
    /\ UNCHANGED <<tasks, reqs, current_task, bg, config, save_data, db, now, response, hist>>

\* save_post_with_comments on the first post
CallSave(platform) ==
    /\ call.op = "args"
    /\ LET one == save_post_with_comments(db[platform], call.posts[1], call.comments[1],
                                          None, now, call.oks[1])
       IN  /\ db' = [db EXCEPT ![platform] = one.coll]
           /\ call' = [call EXCEPT !.op = "saved", !.platform = platform, !.ret = one.ret]
    /\ UNCHANGED <<tasks, reqs, current_task, bg, config, save_data, now, response, hist>>

\* save_batch on the posts, with the comments a wrapper has captured for them
CallSaveBatch(platform) ==
    /\ call.op = "args"
    /\ LET captured == CaptureAll(NewWrapper(1), call.posts, call.comments, 1)
           all == save_batch(db[platform], call.posts, captured.captured_comments,
                             None, now, call.oks)
       IN  /\ db' = [db EXCEPT ![platform] = all.coll]
           /\ call' = [call EXCEPT !.op = "batch_saved", !.platform = platform,
                                   !.ret = all.success_count]
    /\ UNCHANGED <<tasks, reqs, current_task, bg, config, save_data, now, response, hist>>

InitCalls ==
    /\ tasks = <<>>
    /\ reqs = <<>>
    /\ current_task = 0
    /\ bg = <<>>
    /\ config = ConfigWithSortType
    /\ save_data = [p \in Platforms |-> OriginalSink]
    /\ db = [p \in Platforms |-> <<>>]
    /\ now = 0
    /\ response = NoResponse
    /\ call \in CallArgs
    /\ hist = [visits |-> <<>>, crawl_failed |-> <<>>, txn |-> <<>>,
               last_saved |-> [p \in Platforms |-> <<>>], calls |-> 0,
               statuses |-> <<>>]

NextCalls ==
    \/ CallCapture
    \/ \E platform \in Platforms : CallSave(platform)
    \/ \E platform \in Platforms : CallSaveBatch(platform)

SpecCalls == InitCalls /\ [][NextCalls]_vars

(***************************************************************************)
(* ConfigInjector driven on its own: inject_config on the module, then     *)
(* restore_config with a tokens dict.                                      *)
(***************************************************************************)
\* how many inject_config / restore_config pairs one behaviour makes
MaxInjects == 2

\* the keys inject_config stores in the tokens dict
TokenKeys ==
    {"original_platform", "original_keywords", "original_login_type",
     "original_crawler_type", "original_headless", "original_enable_cdp",
     "original_enable_proxy", "original_max_notes", "original_max_comments",
     "original_enable_comments", "original_enable_sub_comments", "original_sleep",
     "crawler_type_token", "original_sort_type"}

\* the entries missing from the tokens dicts restore_config is called with:
\* none for the dict inject_config returned (line 319), all for the empty
\* dict of the except clause (line 352), and some in between
MissingEntries ==
    { {},
      TokenKeys,
      {"original_login_type", "original_headless", "original_max_notes"},
      {"original_crawler_type", "original_enable_cdp", "original_enable_proxy",
       "original_max_comments", "original_enable_comments",
       "original_enable_sub_comments", "original_sleep"},
      TokenKeys \ {"crawler_type_token"} }

\* tokens = ConfigInjector.inject_config(platform, keywords, crawler_config)
CallInject(platform, keywords, crawler_config) ==
    /\ call.op \in {"none", "restored"}
    /\ hist.calls < MaxInjects
    /\ LET ctxvar == IF call.op = "none" THEN "" ELSE call.ctxvar
           r == inject_config(config, ctxvar, platform, keywords, crawler_config)
       IN  /\ config' = r.config
           /\ call' = [op |-> "injected", tokens |-> r.tokens, ctxvar |-> r.ctxvar,
                       before |-> config]
    /\ hist' = [hist EXCEPT !.calls = @ + 1]
    /\ UNCHANGED <<tasks, reqs, current_task, bg, save_data, db, now, response>>

\* ConfigInjector.restore_config(tokens), tokens being the dict inject_config
\* returned without the entries of missing
CallRestore(missing) ==
    /\ call.op = "injected"
    /\ LET tokens == [k \in DOMAIN call.tokens \ missing |-> call.tokens[k]]
           rc == restore_config(config, call.ctxvar, tokens)
       IN  /\ config' = rc.config
           /\ call' = [op |-> "restored", tokens |-> tokens, ctxvar |-> rc.ctxvar,
                       before |-> config]
    /\ UNCHANGED <<tasks, reqs, current_task, bg, save_data, db, now, response, hist>>

InitConfig ==
    /\ tasks = <<>>
    /\ reqs = <<>>
    /\ current_task = 0
    /\ bg = <<>>
    /\ config \in InitialConfigs
    /\ save_data = [p \in Platforms |-> OriginalSink]
    /\ db = [p \in Platforms |-> <<>>]
    /\ now = 0
    /\ response = NoResponse
    /\ call = NoCall
    /\ hist = [visits |-> <<>>, crawl_failed |-> <<>>, txn |-> <<>>,
               last_saved |-> [p \in Platforms |-> <<>>], calls |-> 0,
               statuses |-> <<>>]

NextConfig ==
    \/ \E platform \in Platforms, keywords \in {<<"a">>, <<"a", "b">>},
          crawler_config \in {DefaultCrawlerConfig, OverrideCrawlerConfig} :
            CallInject(platform, keywords, crawler_config)
    \/ \E missing \in MissingEntries : CallRestore(missing)

SpecConfig == InitConfig /\ [][NextConfig]_vars

(***************************************************************************)
(* Properties.                                                             *)
(***************************************************************************)
Tasks == 1..Len(tasks)

\* the run_with_capture calls and returns of a run of n rounds over m
\* platforms, in request order
ExpectedVisits(n, m) ==
    [k \in 1..(2 * n * m) |->
        LET e == (k + 1) \div 2
        IN  <<IF k % 2 = 1 THEN "begin" ELSE "end", ((e - 1) \div m) + 1, ((e - 1) % m) + 1>>]

ExpectedOf(t) == ExpectedVisits(Len(reqs[t].keyword_groups), Len(reqs[t].platforms))

\* this step of task t's unit is one in which run_with_capture returns
RunReturned(t) ==
    /\ Len(hist'.visits[t]) > Len(hist.visits[t])
    /\ bg'[t].pc \in {"save", "index"}

\* the settings as they were before the config transaction this step closes
BeforeOpen(t) ==
    IF bg[t].pc \in {"crawl", "close"} THEN hist.txn[t].before ELSE config

\* C1: at most one task has status running, in every reachable state.
SingleFlight ==
    Cardinality({t \in Tasks : tasks[t].status = "running"}) <= 1

PartialFailureContained ==
    [][\A t \in Tasks :
        hist.crawl_failed[t] # <<>> =>
            /\ tasks[t].status = "running"
            /\ bg'[t].pc = "done" =>
                /\ tasks'[t].status = "completed"
                /\ hist'.visits[t] = ExpectedOf(t)]_vars

PartialFailureContainedWitness ==
    \E t \in Tasks :
        /\ hist.crawl_failed[t] = <<1, 1>>
        /\ hist.visits[t] = ExpectedVisits(2, 2)
        /\ bg[t].pc = "index"

\* C4: a task is completed or failed exactly when its background unit has
\* finished, and the slot does not reference it then.
SlotReleased ==
    \A t \in Tasks :
        /\ bg[t].pc = "done" <=> tasks[t].status \in {"completed", "failed"}
        /\ bg[t].pc = "done" => current_task # t

SlotReleasedWitness ==
    \E t, u \in Tasks :
        /\ bg[t].pc = "done" /\ tasks[t].status = "failed"
        /\ bg[u].pc = "done" /\ tasks[u].status = "completed"

\* C5: the platform executions of a task happen one at a time in the order
\* (round 1, platform 1) .. (round 1, platform m), (round 2, platform 1) ..,
\* and a completed task has made exactly n*m of them.
ExecutionOrder ==
    \A t \in Tasks :
        LET v == hist.visits[t]
            expected == ExpectedOf(t)
        IN  /\ Len(v) <= Len(expected)
            /\ v = SubSeq(expected, 1, Len(v))
            /\ bg[t].pc \in {"crawl", "close"} <=> Len(v) % 2 = 1
            /\ tasks[t].status = "completed" => v = expected

ExecutionOrderWitness ==
    \E t \in Tasks :
        /\ tasks[t].status = "completed"
        /\ hist.visits[t] = ExpectedVisits(2, 2)

\* C6: when a config transaction closes, every setting that open overwrote
\* has the value it had immediately before open.
ConfigRestoredExactly ==
    [][\A t \in Tasks :
        RunReturned(t) =>
            \A k \in OverwrittenSettings(BeforeOpen(t)) : config'[k] = BeforeOpen(t)[k]]_vars

\* C7: when a platform's processing ends by an exception, the settings are
\* back at the values they had before that platform's open.
ConfigRestoredOnFailure ==
    [][\A t \in Tasks :
        (RunReturned(t) /\ hist'.txn[t].raised) =>
            \A k \in OverwrittenSettings(BeforeOpen(t)) : config'[k] = BeforeOpen(t)[k]]_vars

\* C8: when run_with_capture returns, the platform's save hook is the sink
\* that was installed before the run, and no browser session is left open.
SinkRestored ==
    [][\A t \in Tasks :
        (bg[t].pc \in {"crawl", "close"} /\ bg'[t].pc \in {"save", "index"}) =>
            /\ "save_data" \in DOMAIN bg[t].wrapper.original_methods =>
                 save_data'[reqs[t].platforms[bg[t].pidx]]
                     = bg[t].wrapper.original_methods["save_data"]
            /\ bg'[t].browser # "open"]_vars

\* C9: run_with_capture does not raise: its unit goes on, and a run in which
\* create_crawler, _setup_data_capture or crawler.start() raised returns
\* success false, the error text, no posts and no comments.
RunNeverRaises ==
    \A t \in Tasks :
        bg[t].pc \in {"save", "index"} =>
            /\ tasks[t].status = "running"
            /\ hist.txn[t].raised =>
                 bg[t].result = [posts |-> <<>>, comments |-> <<>>,
                                 success |-> FALSE, error |-> ExcText]
            /\ ~hist.txn[t].raised => (bg[t].result.success /\ bg[t].result.error = "None")

RunNeverRaisesWitness ==
    \E t \in Tasks :
        /\ bg[t].pc = "index"
        /\ hist.txn[t].raised
        /\ hist.txn[t].captured > 0

\* C10: a platform collection holds at most one document per post_id, and
\* that document's comments and comment_count are those of the most recent
\* successful save for that id.
UpsertUnique ==
    \A p \in Platforms :
        /\ \A i, j \in 1..Len(db[p]) : db[p][i].post_id = db[p][j].post_id => i = j
        /\ \A i \in 1..Len(db[p]) :
             /\ db[p][i].post_id \in DOMAIN hist.last_saved[p]
             /\ db[p][i].comments = hist.last_saved[p][db[p][i].post_id].comments
             /\ db[p][i].comment_count = Len(hist.last_saved[p][db[p][i].post_id].comments)
        /\ \A id \in DOMAIN hist.last_saved[p] : Matching(db[p], id) # {}

UpsertUniqueWitness ==
    \E p \in Platforms :
        /\ Len(db[p]) = 2
        /\ \E i \in 1..Len(db[p]) :
             /\ hist.last_saved[p][db[p][i].post_id].saves = 3
             /\ db[p][i].comment_count = 2

\* the four fields in the order the identifier is looked for
FieldOrder == <<"post_id", "note_id", "aweme_id", "id">>

\* a field of the post counts when it is there
IsPresent(post, f) == f \in DOMAIN post

\* a field of the post counts when it holds a value that is not None, not
\* empty and not zero
IsUsable(post, f) ==
    f \in DOMAIN post /\ post[f] \notin {None, PyStr(""), PyInt("0")}

\* the identifier rule for a way Counts of counting a field: capture, save
\* and save_batch of one post use the text of the first field that counts,
\* and a post without such a field is dropped
IdentifierRule(Counts(_, _)) ==
    (call.op \in {"captured", "saved", "batch_saved"} /\ Len(call.posts) = 1) =>
        LET post == call.posts[1]
            has == \E j \in 1..4 : Counts(post, FieldOrder[j])
            first == CHOOSE j \in 1..4 :
                        /\ Counts(post, FieldOrder[j])
                        /\ \A k \in 1..(j - 1) : ~Counts(post, FieldOrder[k])
            id == post[FieldOrder[first]].v
            stored == db[call.platform]
        IN  CASE call.op = "captured" ->
                    IF has
                    THEN /\ call.ret.captured_posts = <<post>>
                         /\ DOMAIN call.ret.captured_comments = {id}
                    ELSE /\ call.ret.captured_posts = <<>>
                         /\ DOMAIN call.ret.captured_comments = {}
              [] call.op = "saved" ->
                    IF has /\ call.oks[1]
                    THEN call.ret = TRUE /\ Len(stored) = 1 /\ stored[1].post_id = id
                    ELSE call.ret = FALSE /\ stored = <<>>
              [] call.op = "batch_saved" ->
                    IF has /\ call.oks[1]
                    THEN call.ret = 1 /\ Len(stored) = 1 /\ stored[1].post_id = id
                    ELSE call.ret = 0 /\ stored = <<>>

\* C11 as stated: the identifier is the value of the first field present
\* among post_id, note_id, aweme_id, id; a post with none of the four is not
\* captured, not saved and not counted.
IdentifierIsFirstPresent == IdentifierRule(IsPresent)

\* C11: the identifier capture, save and save_batch derive is the text of the
\* first field among post_id, note_id, aweme_id, id whose value is not None,
\* empty or zero; a post without such a field is not captured, save returns
\* false for it and save_batch does not count it.
IdentifierIsFirstUsable == IdentifierRule(IsUsable)

IdentifierIsFirstUsableWitness ==
    /\ call.op = "batch_saved"
    /\ call.posts = <<[post_id |-> PyStr(""), aweme_id |-> PyInt("0"), id |-> PyInt("7")]>>
    /\ call.ret = 1
    /\ db[call.platform][1].post_id = "7"

\* C12: the progress of a task never decreases from one step to the next,
\* and it stays within 0 and 100.
ProgressMonotonic ==
    [][/\ \A t \in Tasks : FracLeq(tasks[t].progress, tasks'[t].progress)
       /\ \A t \in 1..Len(tasks') :
            /\ FracLeq(Fraction(0, 1), tasks'[t].progress)
            /\ FracLeq(tasks'[t].progress, Fraction(100, 1))]_vars

ProgressMonotonicWitness ==
    \E t \in Tasks :
        /\ tasks[t].total_rounds = 2
        /\ tasks[t].current_round = 2
        /\ bg[t].pc = "crawl"
        /\ FracEq(tasks[t].progress, Fraction(50, 1))

\* C13: while round k of n is being processed progress is (k-1)/n*100, once
\* all its platforms have been processed it is k/n*100 until round k+1's
\* platforms have all been processed, and it is 100 when the task is
\* completed.
ProgressValue ==
    \A t \in Tasks :
        LET n == tasks[t].total_rounds
            k == bg[t].round_idx
        IN  /\ bg[t].pc \in {"crawl", "close", "save", "index", "psleep"} =>
                 FracEq(tasks[t].progress, Fraction((k - 1) * 100, n))
            /\ bg[t].pc = "rsleep" =>
                 /\ k = tasks[t].current_round
                 /\ FracEq(tasks[t].progress, Fraction(k * 100, n))
            /\ tasks[t].status = "completed" =>
                 FracEq(tasks[t].progress, Fraction(100, 1))

ProgressValueWitness ==
    \E t \in Tasks :
        /\ bg[t].pc = "rsleep"
        /\ bg[t].round_idx = 1
        /\ tasks[t].total_rounds = 2
        /\ FracEq(tasks[t].progress, Fraction(50, 1))
        /\ Len(reqs[t].platforms) = 2

\* the slot holds a task whose identifier is id
SlotHolds(id) == current_task # 0 /\ tasks[current_task].task_id = id

\* C14: a status poll for task_id answers with the snapshot of the tracked
\* task exactly when the slot holds a task with that identifier and with
\* NotFound (404) otherwise, and it changes neither the slot nor any task.
StatusPoll ==
    [][\A id \in PolledIds :
        (task_status(id) /\ response' # response) =>
            /\ UNCHANGED <<tasks, reqs, current_task, bg, config, save_data, db>>
            /\ SlotHolds(id) =>
                 /\ response'.code = 200
                 /\ response'.body.task_id = id
                 /\ response'.body.status = tasks[current_task].status
                 /\ response'.body.current_round = tasks[current_task].current_round
                 /\ response'.body.current_platform = tasks[current_task].current_platform
                 /\ response'.body.total_rounds = tasks[current_task].total_rounds
                 /\ response'.body.progress = tasks[current_task].progress
                 /\ response'.body.error_message = tasks[current_task].error_message
            /\ ~SlotHolds(id) => response'.code = 404]_vars

StatusPollWitness ==
    /\ response.op = "task_status"
    /\ response.code = 404
    /\ current_task = 0
    /\ \E t \in Tasks :
         /\ tasks[t].status = "completed"
         /\ response.detail = "Task " \o tasks[t].task_id \o " not found or has expired"

\* C15: a status poll for a task that has ended failed answers with a
\* snapshot whose status is failed and that carries the error message, and a
\* poll for a task that has ended completed answers with status completed and
\* progress 100.
TerminalStatusPollable ==
    [][\A t \in Tasks :
        (/\ tasks[t].status \in {"failed", "completed"}
         /\ task_status(tasks[t].task_id)
         /\ response' # response) =>
            /\ response'.code = 200
            /\ response'.body.status = tasks[t].status
            /\ response'.body.error_message = tasks[t].error_message
            /\ tasks[t].status = "completed" =>
                 FracEq(response'.body.progress, Fraction(100, 1))]_vars

\* C16: a successful submit appends a new task that is pending, in round 0,
\* with progress 0 and total_rounds the number of keyword groups, makes it
\* the tracked task, answers with its identifier (the caller's task_id when
\* one is given) and leaves its background unit scheduled, no round begun.
SubmitInstallsPending ==
    [][(\/ Len(tasks') # Len(tasks)
        \/ (response' # response /\ response'.op = "start_crawl" /\ response'.code = 200)) =>
            LET k == Len(tasks) + 1
            IN  /\ Len(tasks') = k
                /\ \A t \in Tasks : tasks'[t] = tasks[t] /\ bg'[t] = bg[t]
                /\ current_task' = k
                /\ tasks'[k].status = "pending"
                /\ tasks'[k].current_round = 0
                /\ FracEq(tasks'[k].progress, Fraction(0, 1))
                /\ tasks'[k].total_rounds = Len(reqs'[k].keyword_groups)
                /\ reqs'[k].task_id # None => tasks'[k].task_id = reqs'[k].task_id.v
                /\ response'.op = "start_crawl"
                /\ response'.code = 200
                /\ response'.body.task_id = tasks'[k].task_id
                /\ response'.body.total_rounds = tasks'[k].total_rounds
                /\ bg'[k].pc = "scheduled"
                /\ hist'.visits[k] = <<>>]_vars

SubmitInstallsPendingWitness ==
    /\ response.code = 200
    /\ response.body.task_id = "job"
    /\ current_task = 2
    /\ tasks[2].task_id = "job"
    /\ tasks[2].status = "pending"
    /\ bg[2].pc = "scheduled"
    /\ tasks[1].status = "completed"

\* C17: every admitted task eventually is completed or failed with the slot
\* no longer holding it, and once every admitted task has ended the slot is
\* empty, so that the admission check lets the next submit in.
EveryTaskEnds ==
    \A t \in 1..MaxTasks :
        (Len(tasks) >= t) ~>
            (/\ Len(tasks) >= t
             /\ tasks[t].status \in {"completed", "failed"}
             /\ current_task # t
             /\ (\A u \in Tasks : tasks[u].status \in {"completed", "failed"}) =>
                  (current_task = 0 /\ ~is_running))

EveryTaskEndsWitness ==
    /\ Len(tasks) = 2
    /\ tasks[1].status = "failed"
    /\ tasks[2].status = "completed"
    /\ current_task = 0


\* a request the validation of start_crawl is written to reject
FailsValidation(request) ==
    \/ \E j \in 1..Len(request.platforms) : request.platforms[j] \notin valid_platforms
    \/ \A j \in 1..Len(request.keyword_groups) : request.keyword_groups[j] = <<>>

\* C18: a start request that fails validation (a platform outside the
\* supported set, or all keyword groups empty), sent while no task is
\* running, is answered with the bad-request status 400 and creates no
\* state: no Task, the same tracked task, no background unit.
InvalidRequestRejected ==
    [][\A request \in Requests :
          (/\ FailsValidation(request)
           /\ ~(current_task # 0 /\ tasks[current_task].status = "running")
           /\ start_crawl(request))
          => (/\ response'.code = 400
              /\ tasks' = tasks
              /\ reqs' = reqs
              /\ current_task' = current_task
              /\ bg' = bg)]_vars

\* C19: every admitted run has at least one platform, all of its platforms
\* supported, and at least one keyword group with every keyword group
\* non-empty, so the round a Crawler is running for has keywords.
AdmittedRunsWellFormed ==
    \A t \in Tasks :
        /\ Len(reqs[t].platforms) >= 1
        /\ \A j \in 1..Len(reqs[t].platforms) : reqs[t].platforms[j] \in valid_platforms
        /\ Len(reqs[t].keyword_groups) >= 1
        /\ \A j \in 1..Len(reqs[t].keyword_groups) : reqs[t].keyword_groups[j] # <<>>
        /\ bg[t].pc = "crawl" => reqs[t].keyword_groups[bg[t].round_idx] # <<>>

\* the post has a field among the four with a usable value
Saveable(post) == \E j \in 1..4 : IsUsable(post, FieldOrder[j])

\* the text of the first usable field of a saveable post
UsableId(post) ==
    LET first == CHOOSE j \in 1..4 :
                    /\ IsUsable(post, FieldOrder[j])
                    /\ \A k \in 1..(j - 1) : ~IsUsable(post, FieldOrder[k])
    IN  post[FieldOrder[first]].v

\* the positions of the batch whose own save returns true
SavedPositions ==
    {i \in 1..Len(call.posts) : Saveable(call.posts[i]) /\ call.oks[i]}

\* C20: save_batch returns a count whatever fails for single posts: the
\* count is the number of posts whose own save returns true (an identifier
\* can be derived and the store works), and each of them is stored, those
\* after a post that failed included.
BatchCountsEachSave ==
    call.op = "batch_saved" =>
        /\ call.ret = Cardinality(SavedPositions)
        /\ \A i \in SavedPositions :
              \E j \in 1..Len(db[call.platform]) :
                  db[call.platform][j].post_id = UsableId(call.posts[i])
        /\ Len(db[call.platform]) =
              Cardinality({UsableId(call.posts[i]) : i \in SavedPositions})

\* a post without an identifier, a post the store fails for, and a post that
\* is saved after both
BatchCountsEachSaveWitness ==
    /\ call.op = "batch_saved"
    /\ call.posts = <<[post_id |-> PyStr("")], [post_id |-> PyStr("A")], [id |-> PyInt("7")]>>
    /\ call.oks = <<TRUE, FALSE, TRUE>>
    /\ call.ret = 1
    /\ Len(db[call.platform]) = 1
    /\ db[call.platform][1].post_id = "7"

\* C21: no operation of the control surface (submit, status, is_running)
\* changes a task that is running: such a task changes only in a step of
\* its own background unit, which is no step that answers a request; and it
\* leaves the running state only in the step that ends that unit: completed
\* after the last platform of the last round, or failed with the text of the
\* exception that left the round loop.
NoCancellation ==
    [][\A t \in Tasks :
        /\ (tasks[t].status = "running" /\ tasks'[t] # tasks[t]) =>
                /\ bg'[t] # bg[t]
                /\ response' = response
                /\ Len(tasks') = Len(tasks)
        /\ (tasks[t].status = "running" /\ tasks'[t].status # "running") =>
                /\ bg[t].pc # "done"
                /\ bg'[t].pc = "done"
                /\ \/ /\ tasks'[t].status = "completed"
                      /\ bg[t].round_idx = tasks[t].total_rounds
                      /\ bg[t].pidx = Len(reqs[t].platforms)
                      /\ hist'.visits[t] = ExpectedOf(t)
                   \/ /\ tasks'[t].status = "failed"
                      /\ tasks'[t].error_message # "None"]_vars

\* one task has completed and the is_running endpoint has just reported
\* another one running
NoCancellationWitness ==
    \E t, u \in Tasks :
        /\ tasks[t].status = "completed"
        /\ tasks[u].status = "running"
        /\ response.op = "is_running"
        /\ response.body.is_running
        /\ response.body.current_task = to_dict(tasks[u])

\* the changes of status the state machine allows
AllowedChanges ==
    {<<"pending", "running">>, <<"running", "completed">>, <<"running", "failed">>}

\* C22: a task is created pending and every assignment to its status goes
\* from pending to running, from running to completed or from running to
\* failed, so completed and failed are never left; the status a task shows
\* is the one assigned last.
StatusStateMachine ==
    \A t \in Tasks :
        LET assigned == hist.statuses[t]
        IN  /\ assigned[1] = "pending"
            /\ \A k \in 1..(Len(assigned) - 1) :
                    <<assigned[k], assigned[k + 1]>> \in AllowedChanges
            /\ tasks[t].status = assigned[Len(assigned)]

\* both ends of the state machine have been reached
StatusStateMachineWitness ==
    \E t, u \in Tasks :
        /\ tasks[t].status = "failed"
        /\ hist.statuses[t] = <<"pending", "running", "failed">>
        /\ tasks[u].status = "completed"
        /\ hist.statuses[u] = <<"pending", "running", "completed">>

\* C23: the is_running endpoint reports is_running true exactly when the
\* slot holds a task whose status is running (false for an empty slot and
\* for a tracked task that is still pending), and it reports a current_task,
\* the snapshot of the tracked task, exactly when it reports true.
IsRunningReport ==
    [][check_if_running =>
        LET running == current_task # 0 /\ tasks[current_task].status = "running"
            report == response'.body
        IN  /\ report.is_running = running
            /\ (report.current_task # None) = report.is_running
            /\ running => report.current_task = to_dict(tasks[current_task])]_vars

\* the endpoint has answered false while the tracked task is pending
IsRunningReportWitness ==
    /\ current_task # 0
    /\ tasks[current_task].status = "pending"
    /\ response.op = "is_running"
    /\ response.body = [is_running |-> FALSE, current_task |-> None]

\* the config transaction of task t is open: inject_config has returned
\* tokens that restore_config has not been called with yet
TransactionOpen(t) == DOMAIN bg[t].tokens # {}

\* C24: at most one config transaction is open in any reachable state.
SingleTransaction ==
    Cardinality({t \in Tasks : TransactionOpen(t)}) <= 1

\* C25: when the processing of a platform ends, the unit sleeps, for 60 to
\* 120 seconds, exactly when the platform is not at the last position of
\* the request's platform list, also in a list that names a platform twice.
PlatformPacing ==
    [][\A t \in Tasks :
        (bg[t].pc = "index" /\ bg'[t] # bg[t]) =>
            /\ bg'[t].pc = "psleep" <=> bg[t].pidx < Len(reqs[t].platforms)
            /\ bg'[t].pc = "psleep" =>
                    (bg'[t].sleep_time >= 60 /\ bg'[t].sleep_time <= 120)]_vars

\* this step ends the processing of the last platform of t's current round
RoundEnds(t) ==
    /\ bg[t].pc \in {"index", "psleep"}
    /\ bg[t].pidx = Len(reqs[t].platforms)
    /\ bg'[t] # bg[t]

\* C26: after every round but the last the unit sleeps for 300 to 600
\* seconds, with the progress of that round already written and
\* current_round still that round; current_round moves on only when that
\* sleep returns; after the last round the task is completed at once.
RoundPacing ==
    [][\A t \in Tasks :
        LET r == bg[t].round_idx
            total == tasks[t].total_rounds
        IN  /\ (RoundEnds(t) /\ r < total) =>
                    /\ bg'[t].pc = "rsleep"
                    /\ bg'[t].sleep_time >= 300 /\ bg'[t].sleep_time <= 600
                    /\ FracEq(tasks'[t].progress, Fraction(r * 100, total))
                    /\ tasks'[t].current_round = r
                    /\ tasks'[t].status = "running"
            /\ (RoundEnds(t) /\ r = total) =>
                    /\ bg'[t].pc = "done"
                    /\ tasks'[t].status = "completed"
            /\ bg'[t].pc = "rsleep" => (bg[t].pc = "rsleep" \/ RoundEnds(t))
            /\ (tasks[t].current_round >= 1
                 /\ tasks'[t].current_round # tasks[t].current_round) =>
                    /\ bg[t].pc = "rsleep"
                    /\ tasks'[t].current_round = tasks[t].current_round + 1
            /\ (tasks'[t].status = "completed" /\ tasks[t].status # "completed") =>
                    (RoundEnds(t) /\ r = total)]_vars

\* the unit sleeps after the first of two rounds
RoundPacingWitness ==
    \E t \in Tasks :
        /\ bg[t].pc = "rsleep"
        /\ bg[t].sleep_time = 600
        /\ tasks[t].current_round = 1
        /\ tasks[t].total_rounds = 2
        /\ tasks[t].progress = Fraction(100, 2)
        /\ Len(reqs[t].platforms) = 2

\* C27: a step in which a Crawler run fails or a save fails leaves the task
\* running, and a step in which the restoration of the configuration
\* raises ends the task failed with an error_message.
EscalationPolicy ==
    [][\A t \in Tasks :
        /\ (RunReturned(t) /\ ~bg'[t].result.success) => tasks'[t].status = "running"
        /\ SaveEnds(t, FALSE) => tasks'[t].status = "running"
        /\ (\E ok \in BOOLEAN, outcome \in Outcomes, frac \in {0, 1} :
                RestoreRaises(t, ok, outcome, frac)) =>
                    /\ tasks'[t].status = "failed"
                    /\ tasks'[t].error_message # "None"]_vars

\* what the Crawler has handed to the hook in t's current platform
\* execution, leaving out the posts without a usable identifier
Captured(t) == SelectSeq(hist.txn[t].hooked, LAMBDA e : Saveable(e.post))

\* the posts of Captured(t), in order
CapturedPosts(t) == [k \in 1..Len(Captured(t)) |-> Captured(t)[k].post]

\* the comments of Captured(t) by identifier, the last ones handed in for it
CapturedComments(t) ==
    LET sel == Captured(t)
    IN  [id \in {UsableId(sel[k].post) : k \in 1..Len(sel)} |->
            LET last == CHOOSE k \in 1..Len(sel) :
                            /\ UsableId(sel[k].post) = id
                            /\ \A m \in (k + 1)..Len(sel) : UsableId(sel[m].post) # id
            IN  sel[last].comments]

\* once a platform's run has returned, save_batch has been called exactly
\* when the result says success, and then with what was captured and with
\* the metadata of the task and the round
BatchAsCaptured(t) ==
    bg[t].pc \in {"save", "index"} =>
        LET batch == hist.txn[t].batch
            r == tasks[t].current_round
        IN  /\ batch.called = bg[t].result.success
            /\ batch.called = ~hist.txn[t].raised
            /\ batch.called =>
                    /\ batch.posts = CapturedPosts(t)
                    /\ batch.comments = CapturedComments(t)
                    /\ batch.metadata.task_id = tasks[t].task_id
                    /\ batch.metadata.round = r
                    /\ batch.metadata.keywords = reqs[t].keyword_groups[r]

\* C28: for each platform execution save_batch is called exactly when the
\* result has success true, with the posts and comments captured in that
\* execution and metadata naming the task, the round and its keywords;
\* a document is written to a collection only by such a call for that
\* platform, so a result with success false writes none.
SavesWhatWasCaptured ==
    [][/\ \A t \in 1..Len(tasks') : BatchAsCaptured(t)'
       /\ \A p \in Platforms :
            db'[p] # db[p] =>
                \E t \in Tasks :
                    /\ bg[t].pc = "save"
                    /\ reqs[t].platforms[bg[t].pidx] = p
                    /\ bg[t].result.success
                    /\ hist.txn[t].batch.called
                    /\ \A j \in 1..Len(db'[p]) :
                          (j > Len(db[p]) \/ db'[p][j] # db[p][j]) =>
                              /\ db'[p][j].crawl_metadata = hist.txn[t].batch.metadata
                              /\ \E k \in 1..Len(hist.txn[t].batch.posts) :
                                    db'[p][j].post_detail = hist.txn[t].batch.posts[k]
                              /\ db'[p][j].comments =
                                    hist.txn[t].batch.comments[db'[p][j].post_id]]_vars

\* in round 2 a captured post has been saved for wb with that round's
\* metadata, after the run for xhs in the same round had failed
SavesWhatWasCapturedWitness ==
    \E t \in Tasks :
        /\ bg[t].pc = "index"
        /\ tasks[t].current_round = 2
        /\ tasks[t].current_platform = "wb"
        /\ hist.crawl_failed[t] = <<2, 1>>
        /\ hist.txn[t].batch.called
        /\ Len(hist.txn[t].batch.posts) = 1
        /\ Len(db["wb"]) = 1
        /\ db["wb"][1].crawl_metadata.round = 2
        /\ db["wb"][1].crawl_metadata.keywords = <<"b">>
        /\ db["xhs"] = <<>>

\* the document of collection coll whose post_id is id
DocumentOf(coll, id) == coll[CHOOSE j \in 1..Len(coll) : coll[j].post_id = id]

\* C29: each successful save of a post_id that has a document gives the
\* document an updated_at greater than the one it had, whatever the clock
\* returns.
UpdatedAtIncreases ==
    [][\A p \in Platforms :
        \A id \in DOMAIN hist.last_saved[p] :
            hist'.last_saved[p][id].saves > hist.last_saved[p][id].saves =>
                DocumentOf(db'[p], id).updated_at > DocumentOf(db[p], id).updated_at]_vars

\* the sum of the lengths of the comments sequences of the documents
RECURSIVE SumOfLengths(_)
SumOfLengths(coll) ==
    IF coll = <<>> THEN 0 ELSE Len(Head(coll).comments) + SumOfLengths(Tail(coll))

\* C30: every document has comment_count equal to the length of its
\* comments; and when get_stats_by_platform has been answered by the store,
\* no save having changed the collection since its first query, total_posts
\* is the number of documents and total_comments the sum of the lengths of
\* their comments, 0 for an empty collection.
StatsMatchDocuments ==
    /\ \A p \in Platforms : \A j \in 1..Len(db[p]) :
            db[p][j].comment_count = Len(db[p][j].comments)
    /\ (call.op = "stats" /\ call.answered /\ hist.calls = call.at) =>
            /\ call.ret.total_posts = Len(db[call.platform])
            /\ call.ret.total_comments = SumOfLengths(db[call.platform])

\* two documents, with two comments and one, have been counted
StatsMatchDocumentsWitness ==
    /\ call.op = "stats"
    /\ call.answered
    /\ hist.calls = call.at
    /\ Len(db[call.platform]) = 2
    /\ call.ret.total_posts = 2
    /\ call.ret.total_comments = 3


\* the config attribute restore_config assigns from each tokens entry
SettingOf ==
    [original_login_type |-> "LOGIN_TYPE",
     original_crawler_type |-> "CRAWLER_TYPE",
     original_headless |-> "HEADLESS",
     original_enable_cdp |-> "ENABLE_CDP_MODE",
     original_enable_proxy |-> "ENABLE_IP_PROXY",
     original_max_notes |-> "CRAWLER_MAX_NOTES_COUNT",
     original_max_comments |-> "CRAWLER_MAX_COMMENTS_COUNT_SINGLENOTES",
     original_enable_comments |-> "ENABLE_GET_COMMENTS",
     original_enable_sub_comments |-> "ENABLE_GET_SUB_COMMENTS",
     original_sleep |-> "CRAWLER_MAX_SLEEP_SEC"]

\* the fallback of each entry: login type qrcode, crawler type search,
\* headless false, anti-detection true, proxy false, max items 15, max
\* comments 10, comments enabled, sub-comments disabled, sleep bound 2
DocumentedFallback ==
    [original_login_type |-> "qrcode",
     original_crawler_type |-> "search",
     original_headless |-> FALSE,
     original_enable_cdp |-> TRUE,
     original_enable_proxy |-> FALSE,
     original_max_notes |-> 15,
     original_max_comments |-> 10,
     original_enable_comments |-> TRUE,
     original_enable_sub_comments |-> FALSE,
     original_sleep |-> 2]

Unfinished(t) == tasks[t].status \in {"pending", "running"}

\* C32: every admitted task that has reached neither completed nor failed is
\* the task the slot holds; a later admission never takes the slot from it.
AdmittedTaskTracked ==
    \A t \in Tasks : Unfinished(t) => current_task = t

\* the background unit of task t runs its finally clause in this step
CleansUp(t) == bg[t].pc # "done" /\ bg'[t].pc = "done"

\* C33: the finally clause of a unit leaves the slot alone when the slot
\* holds another task object that is still pending or running, also when
\* both tasks carry the same caller-supplied task_id.
CleanupClearsOwnTaskOnly ==
    [][\A t \in Tasks :
        (CleansUp(t) /\ current_task # 0 /\ current_task # t /\ Unfinished(current_task))
            => current_task' = current_task]_vars


\* C34: the current round of a task lies between 0 and the number of
\* rounds and never decreases; it is 0 while the task is pending, and while
\* the task is running its progress is (current_round - 1) / total_rounds *
\* 100 or current_round / total_rounds * 100.
RoundCounterInvariant ==
    /\ [](\A t \in Tasks :
            LET k == tasks[t].current_round
                n == tasks[t].total_rounds
            IN  /\ 0 <= k /\ k <= n
                /\ tasks[t].status = "pending" => k = 0
                /\ tasks[t].status = "running" =>
                     \/ FracEq(tasks[t].progress, Fraction((k - 1) * 100, n))
                     \/ FracEq(tasks[t].progress, Fraction(k * 100, n)))
    /\ [][\A t \in Tasks : tasks[t].current_round <= tasks'[t].current_round]_vars

RoundCounterInvariantWitness ==
    \E t \in Tasks :
        /\ tasks[t].status = "running"
        /\ tasks[t].total_rounds = 2
        /\ tasks[t].current_round = 1
        /\ FracEq(tasks[t].progress, Fraction(100, 2))
        /\ hist.statuses[t] = <<"pending", "running">>


\* the positions of the posts given to the capture function that it keeps
KeptPositions == {i \in 1..Len(call.posts) : Saveable(call.posts[i])}

\* C35: after the capture calls of one run every captured post has an entry
\* in captured_comments under its derived identifier and every key of
\* captured_comments is the derived identifier of a captured post; a post is
\* appended each time it is captured, an identifier captured twice included;
\* and the count save_batch returns is at least the number of documents
\* written and at most the number of posts passed in.
CaptureConsistent ==
    /\ call.op = "captured" =>
         LET posts == call.ret.captured_posts
             by_id == call.ret.captured_comments
         IN  /\ \A i \in 1..Len(posts) : UsableId(posts[i]) \in DOMAIN by_id
             /\ \A id \in DOMAIN by_id : \E i \in 1..Len(posts) : UsableId(posts[i]) = id
             /\ Len(posts) = Cardinality(KeptPositions)
    /\ call.op = "batch_saved" =>
         /\ call.ret <= Len(call.posts)
         /\ Len(db[call.platform]) <= call.ret

\* the same identifier captured twice and saved twice: a count of three for
\* two documents, the later capture's comments being the stored ones
CaptureConsistentWitness ==
    /\ call.op = "batch_saved"
    /\ call.posts = <<[post_id |-> PyStr("A")], [post_id |-> PyStr("A")], [note_id |-> PyStr("B")]>>
    /\ call.ret = 3
    /\ Len(db[call.platform]) = 2
    /\ \E j \in 1..2 : /\ db[call.platform][j].post_id = "A"
                       /\ db[call.platform][j].comments = <<>>

====
